---------------------------- MODULE Spec2Model ----------------------------
(***************************************************************************)
(* Verification model of the virtual-elevation-analyzer backend.           *)
(*                                                                         *)
(* One specification per subsystem; every specification constrains all     *)
(* variables of the module and leaves the other subsystems idle:           *)
(*   SpecDem       DEMProcessor::batch_lookup        (dem_processor.rs)    *)
(*   SpecValidate  SecurityValidator::validate_fit_data (security.rs)      *)
(*   SpecWrapper   FitParserWrapper::parse, parse_fit_file                 *)
(*   SpecDecoder   FitDecoder::parse                     (fit_decoder.rs)  *)
(*   SpecField     FitDecoder::read_field_value, create_record             *)
(*                                                                         *)
(* Number representation.  f64/f32 quantities are modelled in fixed point: *)
(* geographic coordinates and geotransform terms in units of 1/2 (the      *)
(* inverse geotransform is a ratio of products of two such terms, so the   *)
(* unit cancels and pixel coordinates are exact rationals n/d); raster     *)
(* elevations in units of 1/1000 m, as records that are NaN or finite.      *)
(***************************************************************************)
EXTENDS Integers, Sequences, FiniteSets, TLC

VARIABLES
    \* ---- DEMProcessor (dem_processor.rs:8-16) and one batch_lookup call
    dem,          \* the DEMProcessor object: width, height, transform, nodata_value, data, has_proj
    lats,         \* argument lats
    lons,         \* argument lons
    altitudes,    \* local Vec altitudes
    projected,    \* per processed point, the outcome of proj4rs::transform::transform
    dem_pc,       \* position in batch_lookup: "call" | "loop" | "done" | "error" | "idle"
    \* ---- SecurityValidator::validate_fit_data (security.rs:13-41)
    blob,         \* argument data, abstracted to what the function reads
    val_pc,       \* "call" | "done" | "idle"
    val_result,   \* "none" | "Ok" | "Err"
    val_warned,   \* console::warn_1 was called
    \* ---- FitParserWrapper::parse and parse_fit_file (fitparser_wrapper.rs, fit_parser.rs)
    fit_data,     \* the FitDataRecords fitparser::de::from_reader_with_options returned
    w_i,          \* number of messages the loop of parse has consumed
    w_records,    \* local records of parse
    w_laps,       \* local laps of parse
    w_out,        \* the ParsedFitFile parse_fit_file returns: timestamps, altitude, velocity, duration
    w_pc,         \* "loop" | "convert" | "done" | "idle"
    \* ---- FitDecoder (fit_decoder.rs:70-74) and one parse call
    data,         \* FitDecoder.data, the byte buffer
    position,     \* FitDecoder.position (0-based cursor)
    definitions,  \* FitDecoder.definitions: local message type -> FieldDefinition
    records,      \* local records of parse, in stream order
    laps,         \* local laps of parse
    decoded,      \* every data message read_data_message decoded: its definition, field_values, result
    d_out,        \* the (records, laps) parse returns
    d_pc,         \* "parse" | "done" | "idle"
    \* ---- one FitDecoder::read_field_value call followed by create_record
    fld,          \* the Field being read
    fld_value,    \* the Result<FieldValue, String> of read_field_value
    fld_record,   \* the Option<FitRecord> create_record builds from {timestamp, this field}
    fld_pc,       \* "read" | "create" | "done" | "idle"
    \* ---- GeoTransform (dem_processor.rs:21-34) and one round trip through its two functions
    geo_t,        \* the GeoTransform
    geo_in,       \* the pair handed to the first function
    geo_out,      \* the pair the second function returns
    geo_pc,       \* "call" | "pixel" (pixel -> geo -> pixel) | "geo" (geo -> pixel -> geo) | "idle"
    \* ---- one DEMProcessor::new_with_world_file call (dem_processor.rs:66-232)
    tiff,         \* what the tiff Decoder yields for file_data: validity, dimensions, samples, GDAL_NODATA
    new_dem,      \* the Result<DEMProcessor, JsValue> returned
    new_pc,       \* "call" | "built" | "error" | "idle"
    \* ---- VirtualElevationCalculator (virtual_elevation.rs:140-145) and one calculate_virtual_elevation call
    ve_data,      \* VirtualElevationCalculator.data: the VEData arrays
    ve_params,    \* VirtualElevationCalculator.params and air_speed_calibration
    ve_call,      \* the arguments trim_start, trim_end, and the slope classes (cda, crr, power) give
    ve_result,    \* the VEResult returned
    ve_pc,        \* "call" | "done" | "panic" | "idle"
    \* ---- one AirDensityCalculator call (air_density.rs:12-188)
    air_op,       \* "dew_point" | "air_density" | "idle"
    air_in,       \* the arguments: temp_c, humidity_percent, pressure_hpa, dew_point_c
    air_out,      \* the Result returned
    air_pc,       \* "call" | "done" | "idle"
    \* ---- one VirtualElevationCalculator::calculate_rider_directions call
    rd_valid,     \* per sample: position_lat and position_long are both not NaN
    rd_bearing,   \* per pair of consecutive samples: the value of calculate_bearing
    directions,   \* local Vec directions
    x_comp,       \* local Vec x_comp, in 1/DirUnit
    y_comp,       \* local Vec y_comp, in 1/DirUnit
    rd_i,         \* the index of the smoothing loop
    rd_pc,        \* "idle", "called", "smoothing", "converting", "done"
    \* ---- one DEMProcessor::setup_projection call (dem_processor.rs:645-701)
    prj_origin,   \* transform.origin_x and origin_y, in metres
    prj_out,      \* the projection pair returned: "none", "laea" or "utm" with its zone
    prj_pc        \* "idle", "call", "done"

demVars == <<dem, lats, lons, altitudes, projected, dem_pc>>
valVars == <<blob, val_pc, val_result, val_warned>>
wrapVars == <<fit_data, w_i, w_records, w_laps, w_out, w_pc>>

decVars == <<data, position, definitions, records, laps, decoded, d_out, d_pc>>
fldVars == <<fld, fld_value, fld_record, fld_pc>>
geoVars == <<geo_t, geo_in, geo_out, geo_pc>>
newVars == <<tiff, new_dem, new_pc>>
veVars == <<ve_data, ve_params, ve_call, ve_result, ve_pc>>
airVars == <<air_op, air_in, air_out, air_pc>>
rdVars == <<rd_valid, rd_bearing, directions, x_comp, y_comp, rd_i, rd_pc>>
prjVars == <<prj_origin, prj_out, prj_pc>>

vars == <<demVars, valVars, wrapVars, decVars, fldVars, geoVars, newVars, veVars, airVars, rdVars, prjVars>>

\* ---- the idle state of each subsystem, for the specifications of the others
DemIdle ==
    /\ dem = [width |-> 0]
    /\ lats = <<>>
    /\ lons = <<>>
    /\ altitudes = <<>>
    /\ projected = <<>>
    /\ dem_pc = "idle"

ValIdle ==
    /\ blob = [len |-> 0]
    /\ val_pc = "idle"
    /\ val_result = "none"
    /\ val_warned = FALSE

WrapIdle ==
    /\ fit_data = <<>>
    /\ w_i = 0
    /\ w_records = <<>>
    /\ w_laps = <<>>
    /\ w_out = [timestamps |-> <<>>]
    /\ w_pc = "idle"

DecIdle ==
    /\ data = <<>>
    /\ position = 0
    /\ definitions = <<>>
    /\ records = <<>>
    /\ laps = <<>>
    /\ decoded = <<>>
    /\ d_out = <<>>
    /\ d_pc = "idle"

FldIdle ==
    /\ fld = [size |-> 0]
    /\ fld_value = [err |-> FALSE]
    /\ fld_record = [some |-> FALSE]
    /\ fld_pc = "idle"

GeoIdle ==
    /\ geo_t = [pixel_width |-> 0]
    /\ geo_in = <<>>
    /\ geo_out = <<>>
    /\ geo_pc = "idle"

NewIdle ==
    /\ tiff = [valid |-> FALSE]
    /\ new_dem = [width |-> 0]
    /\ new_pc = "idle"

VeIdle ==
    /\ ve_data = [timestamps |-> <<>>]
    /\ ve_params = [velodrome |-> FALSE]
    /\ ve_call = [trim_start |-> 0]
    /\ ve_result = [r2 |-> 0]
    /\ ve_pc = "idle"

AirIdle ==
    /\ air_op = "idle"
    /\ air_in = [temp_c |-> 0]
    /\ air_out = [ok |-> FALSE]
    /\ air_pc = "idle"

RdIdle ==
    /\ rd_valid = <<>>
    /\ rd_bearing = <<>>
    /\ directions = <<>>
    /\ x_comp = <<>>
    /\ y_comp = <<>>
    /\ rd_i = 0
    /\ rd_pc = "idle"

PrjIdle ==
    /\ prj_origin = <<0, 0>>
    /\ prj_out = [kind |-> "none", zone |-> 0]
    /\ prj_pc = "idle"

DemOthersIdle == ValIdle /\ WrapIdle /\ DecIdle /\ FldIdle /\ GeoIdle /\ NewIdle /\ VeIdle /\ AirIdle /\ RdIdle /\ PrjIdle
DemOthers == <<valVars, wrapVars, decVars, fldVars, geoVars, newVars, veVars, airVars, rdVars, prjVars>>
ValOthersIdle == DemIdle /\ WrapIdle /\ DecIdle /\ FldIdle /\ GeoIdle /\ NewIdle /\ VeIdle /\ AirIdle /\ RdIdle /\ PrjIdle
ValOthers == <<demVars, wrapVars, decVars, fldVars, geoVars, newVars, veVars, airVars, rdVars, prjVars>>
WrapOthersIdle == DemIdle /\ ValIdle /\ DecIdle /\ FldIdle /\ GeoIdle /\ NewIdle /\ VeIdle /\ AirIdle /\ RdIdle /\ PrjIdle
WrapOthers == <<demVars, valVars, decVars, fldVars, geoVars, newVars, veVars, airVars, rdVars, prjVars>>
DecOthersIdle == DemIdle /\ ValIdle /\ WrapIdle /\ FldIdle /\ GeoIdle /\ NewIdle /\ VeIdle /\ AirIdle /\ RdIdle /\ PrjIdle
DecOthers == <<demVars, valVars, wrapVars, fldVars, geoVars, newVars, veVars, airVars, rdVars, prjVars>>
GeoOthersIdle == DemIdle /\ ValIdle /\ WrapIdle /\ DecIdle /\ FldIdle /\ NewIdle /\ VeIdle /\ AirIdle /\ RdIdle /\ PrjIdle
GeoOthers == <<demVars, valVars, wrapVars, decVars, fldVars, newVars, veVars, airVars, rdVars, prjVars>>
NewOthersIdle == DemIdle /\ ValIdle /\ WrapIdle /\ DecIdle /\ FldIdle /\ GeoIdle /\ VeIdle /\ AirIdle /\ RdIdle /\ PrjIdle
NewOthers == <<demVars, valVars, wrapVars, decVars, fldVars, geoVars, veVars, airVars, rdVars, prjVars>>
VeOthersIdle == DemIdle /\ ValIdle /\ WrapIdle /\ DecIdle /\ FldIdle /\ GeoIdle /\ NewIdle /\ AirIdle /\ RdIdle /\ PrjIdle
VeOthers == <<demVars, valVars, wrapVars, decVars, fldVars, geoVars, newVars, airVars, rdVars, prjVars>>
AirOthersIdle == DemIdle /\ ValIdle /\ WrapIdle /\ DecIdle /\ FldIdle /\ GeoIdle /\ NewIdle /\ VeIdle /\ RdIdle /\ PrjIdle
AirOthers == <<demVars, valVars, wrapVars, decVars, fldVars, geoVars, newVars, veVars, rdVars, prjVars>>
RdOthersIdle == DemIdle /\ ValIdle /\ WrapIdle /\ DecIdle /\ FldIdle /\ GeoIdle /\ NewIdle /\ VeIdle /\ AirIdle /\ PrjIdle
RdOthers == <<demVars, valVars, wrapVars, decVars, fldVars, geoVars, newVars, veVars, airVars, prjVars>>
PrjOthersIdle == DemIdle /\ ValIdle /\ WrapIdle /\ DecIdle /\ FldIdle /\ GeoIdle /\ NewIdle /\ VeIdle /\ AirIdle /\ RdIdle
PrjOthers == <<demVars, valVars, wrapVars, decVars, fldVars, geoVars, newVars, veVars, airVars, rdVars>>
\* read_field_value works on the decoder's data and position
FldOthersIdle ==
    /\ DemIdle /\ ValIdle /\ WrapIdle /\ GeoIdle /\ NewIdle /\ VeIdle /\ AirIdle /\ RdIdle /\ PrjIdle
    /\ definitions = <<>> /\ records = <<>> /\ laps = <<>> /\ decoded = <<>>
    /\ d_out = <<>> /\ d_pc = "idle"
FldOthers == <<demVars, valVars, wrapVars, definitions, records, laps, decoded, d_out, d_pc, geoVars, newVars, veVars, airVars, rdVars, prjVars>>

\* A float is a record: NaN, or the finite value v
NaN == [nan |-> TRUE, v |-> 0]
F(x) == [nan |-> FALSE, v |-> x]

Abs(x) == IF x < 0 THEN -x ELSE x

Min(a, b) == IF a <= b THEN a ELSE b

\* All sequences over S of length 0..n
RECURSIVE SeqsUpTo(_, _)
SeqsUpTo(n, S) ==
    IF n = 0 THEN {<<>>}
    ELSE LET shorter == SeqsUpTo(n - 1, S)
         IN  shorter \cup {Append(s, x) : s \in {t \in shorter : Len(t) = n - 1}, x \in S}

(***************************************************************************)
(*                              DEM sampler                                *)
(***************************************************************************)

\* Largest batch handed to batch_lookup
MaxPoints == 2

\* f32 nodata test threshold 0.01, in 1/1000 m (dem_processor.rs:276, 330)
NodataEps == 10

\* default nodata -9999.0 in 1/1000 m (dem_processor.rs:186)
DefaultNodata == -9999000

\* GeoTransform of the 3x3 scenario: origin (0,3), pixel size (1,-1), in halves
NorthUp3 == [origin_x |-> 0, origin_y |-> 6, pixel_width |-> 2, pixel_height |-> -2,
             rotation_x |-> 0, rotation_y |-> 0, det_eps |-> 1]

\* A transform read from a world file with a pixel size of 5e-6 degrees, in
\* millionths: its determinant 2.5e-11 is below the 1e-10 of geo_to_pixel
TinyPixel == [origin_x |-> 0, origin_y |-> 6, pixel_width |-> 5, pixel_height |-> -5,
              rotation_x |-> 0, rotation_y |-> 0, det_eps |-> 100]

\* The DEMs a session may hold (DEMProcessor after new_with_world_file).
\*  1: the 3x3 raster with rows {100,110,120};
\*  2: a 3x2 raster with pairwise distinct cells, one nodata cell, one cell within
\*     0.01 of nodata and one NaN cell;
\*  3: raster 2 held in a projected CRS (wgs84_proj and dem_proj are Some);
\*  4: raster 2 under the transform TinyPixel;
\*  5: a 2x2 raster whose cell (0,0) is nodata, under TinyPixel.
DemSet ==
    { [width |-> 3, height |-> 3, transform |-> NorthUp3, nodata_value |-> DefaultNodata,
       data |-> <<F(100000), F(110000), F(120000), F(100000), F(110000), F(120000),
                   F(100000), F(110000), F(120000)>>,
       has_proj |-> FALSE],
      [width |-> 3, height |-> 2, transform |-> NorthUp3, nodata_value |-> DefaultNodata,
       data |-> <<F(10000), F(20000), F(DefaultNodata), F(40000), F(DefaultNodata + 5), NaN>>,
       has_proj |-> FALSE],
      [width |-> 3, height |-> 2, transform |-> NorthUp3, nodata_value |-> DefaultNodata,
       data |-> <<F(10000), F(20000), F(DefaultNodata), F(40000), F(DefaultNodata + 5), NaN>>,
       has_proj |-> TRUE],
      [width |-> 3, height |-> 2, transform |-> TinyPixel, nodata_value |-> DefaultNodata,
       data |-> <<F(10000), F(20000), F(DefaultNodata), F(40000), F(DefaultNodata + 5), NaN>>,
       has_proj |-> FALSE],
      [width |-> 2, height |-> 2, transform |-> TinyPixel, nodata_value |-> DefaultNodata,
       data |-> <<F(DefaultNodata), F(20000), F(30000), F(40000)>>,
       has_proj |-> FALSE] }

\* Input coordinates in halves: -0.5 .. 3.5 around the rasters of DemSet
LonVals == {-1, 0, 1, 3, 5, 6}
LatVals == {0, 1, 3, 5, 6, 7}

\* Outcomes of the forward projection of one point: Err, or Ok with DEM-CRS coordinates
ProjOutcomes == {[ok |-> FALSE, x |-> 0, y |-> 0]} \cup
                {[ok |-> TRUE, x |-> px, y |-> py] : px \in {0, 5}, py \in {6, 7}}

\* A pixel coordinate is a rational [n, d] with d > 0.
Rat(n, d) == IF d < 0 THEN [n |-> -n, d |-> -d] ELSE [n |-> n, d |-> d]

geo_to_pixel_NoRotation(t, x, y) ==
    LET det == t.pixel_width * t.pixel_height - t.rotation_x * t.rotation_y
    IN  IF Abs(det) < t.det_eps THEN <<Rat(0, 1), Rat(0, 1)>>
        ELSE <<Rat(t.pixel_height * (x - t.origin_x), det),
               Rat(t.pixel_width * (y - t.origin_y), det)>>

\* geo_to_pixel without the test of the determinant
geo_to_pixel_NoDetTest(t, x, y) ==
    LET det == t.pixel_width * t.pixel_height - t.rotation_x * t.rotation_y
    IN  <<Rat(t.pixel_height * (x - t.origin_x) - t.rotation_x * (y - t.origin_y), det),
          Rat(t.pixel_width * (y - t.origin_y) - t.rotation_y * (x - t.origin_x), det)>>

\* ---- GeoTransform::geo_to_pixel (dem_processor.rs:45-55)
\* The six terms of a transform are integers in a unit the record fixes through
\* det_eps, the 1e-10 of the determinant test expressed in that unit squared
\* (rounded up): 1 for terms in halves, 100 for terms in millionths.
geo_to_pixel(t, x, y) ==
    LET det == t.pixel_width * t.pixel_height - t.rotation_x * t.rotation_y
    IN  IF Abs(det) < t.det_eps THEN <<Rat(0, 1), Rat(0, 1)>>
        ELSE <<Rat(t.pixel_height * (x - t.origin_x) - t.rotation_x * (y - t.origin_y), det),
               Rat(t.pixel_width * (y - t.origin_y) - t.rotation_y * (x - t.origin_x), det)>>

\* ---- GeoTransform::pixel_to_geo (dem_processor.rs:38-42); col and row are
\* rationals and so is each coordinate returned
pixel_to_geo(t, col, row) ==
    <<Rat(t.origin_x * col.d * row.d + col.n * t.pixel_width * row.d
              + row.n * t.rotation_x * col.d, col.d * row.d),
      Rat(t.origin_y * col.d * row.d + col.n * t.rotation_y * row.d
              + row.n * t.pixel_height * col.d, col.d * row.d)>>

\* Equality of two rationals, and of two pairs of them
RatEq(a, b) == a.n * b.d = b.n * a.d
PairEq(p, q) == RatEq(p[1], q[1]) /\ RatEq(p[2], q[2])

\* f64::round (half away from zero) followed by `as usize` (saturating at 0)
RoundAsUsize(q) ==
    IF q.n < 0 THEN 0 ELSE (2 * q.n + q.d) \div (2 * q.d)

\* f64 comparisons of a pixel coordinate against an integer
RatLt(q, k) == q.n < k * q.d
RatGe(q, k) == q.n >= k * q.d

\* ---- DEMProcessor::get_pixel_value (dem_processor.rs:305-312), 0-based col,row
get_pixel_value(d, col, row) ==
    LET idx == row * d.width + col
    IN  IF idx < Len(d.data) THEN d.data[idx + 1] ELSE F(d.nodata_value)

\* f32 test (value - nodata).abs() < 0.01; false when value is NaN
NearNodata(d, value) == ~value.nan /\ Abs(value.v - d.nodata_value) < NodataEps

\* ---- DEMProcessor::get_interpolated_value (dem_processor.rs:314-335)
get_interpolated_value(d, col, row) ==
    LET col_nearest == RoundAsUsize(col)
        row_nearest == RoundAsUsize(row)
    IN  IF col_nearest >= d.width \/ row_nearest >= d.height THEN NaN
        ELSE LET value == get_pixel_value(d, col_nearest, row_nearest)
             IN  IF NearNodata(d, value) THEN NaN ELSE value

\* dem_processor.rs:267
OutOfBounds(d, col, row) ==
    RatLt(col, 0) \/ RatLt(row, 0) \/ RatGe(col, d.width) \/ RatGe(row, d.height)

\* dem_processor.rs:264-280: one point once its DEM-CRS coordinates (x, y) are known
SampleAt(d, x, y) ==
    LET cr == geo_to_pixel(d.transform, x, y)
    IN  IF OutOfBounds(d, cr[1], cr[2]) THEN NaN
        ELSE LET elevation == get_interpolated_value(d, cr[1], cr[2])
             IN  IF elevation.nan \/ NearNodata(d, elevation) THEN NaN ELSE elevation

InitDem ==
    /\ dem \in DemSet
    /\ lats \in SeqsUpTo(MaxPoints, LatVals)
    /\ lons \in SeqsUpTo(MaxPoints, LonVals)
    /\ altitudes = <<>>
    /\ projected = <<>>
    /\ dem_pc = "call"
    /\ DemOthersIdle

\* dem_processor.rs:236-238
BatchLengthError ==
    /\ dem_pc = "call"
    /\ Len(lats) # Len(lons)
    /\ dem_pc' = "error"
    /\ UNCHANGED <<dem, lats, lons, altitudes, projected>>
    /\ UNCHANGED DemOthers

\* dem_processor.rs:240
BatchBegin ==
    /\ dem_pc = "call"
    /\ Len(lats) = Len(lons)
    /\ altitudes' = <<>>
    /\ dem_pc' = "loop"
    /\ UNCHANGED <<dem, lats, lons, projected>>
    /\ UNCHANGED DemOthers

\* The index of the point the loop is at (0-based i of the source, here 1-based)
CurIdx == Len(projected) + 1

\* A failed projection that skips the point without pushing anything
PushProjFail_NoPush(alts) == alts

\* dem_processor.rs:247-257, Err arm: push NaN and continue
PushProjFail(alts) == Append(alts, NaN)

LookupProjFail ==
    /\ dem_pc = "loop"
    /\ CurIdx <= Len(lats)
    /\ dem.has_proj
    /\ projected' = Append(projected, [ok |-> FALSE, x |-> 0, y |-> 0])
    /\ altitudes' = PushProjFail(altitudes)
    /\ UNCHANGED <<dem, lats, lons, dem_pc>>
    /\ UNCHANGED DemOthers

\* dem_processor.rs:247-281 with the projection succeeding
LookupProjected ==
    /\ dem_pc = "loop"
    /\ CurIdx <= Len(lats)
    /\ dem.has_proj
    /\ \E o \in {p \in ProjOutcomes : p.ok} :
          /\ projected' = Append(projected, o)
          /\ altitudes' = Append(altitudes, SampleAt(dem, o.x, o.y))
    /\ UNCHANGED <<dem, lats, lons, dem_pc>>
    /\ UNCHANGED DemOthers

\* dem_processor.rs:258-281: DEM already in WGS84, (x, y) = (lon, lat)
LookupGeographic ==
    /\ dem_pc = "loop"
    /\ CurIdx <= Len(lats)
    /\ ~dem.has_proj
    /\ projected' = Append(projected, [ok |-> TRUE, x |-> lons[CurIdx], y |-> lats[CurIdx]])
    /\ altitudes' = Append(altitudes, SampleAt(dem, lons[CurIdx], lats[CurIdx]))
    /\ UNCHANGED <<dem, lats, lons, dem_pc>>
    /\ UNCHANGED DemOthers

\* dem_processor.rs:283
BatchReturn ==
    /\ dem_pc = "loop"
    /\ CurIdx > Len(lats)
    /\ dem_pc' = "done"
    /\ UNCHANGED <<dem, lats, lons, altitudes, projected>>
    /\ UNCHANGED DemOthers

NextDem ==
    \/ BatchLengthError
    \/ BatchBegin
    \/ LookupProjFail
    \/ LookupProjected
    \/ LookupGeographic
    \/ BatchReturn

SpecDem == InitDem /\ [][NextDem]_vars


(***************************************************************************)
(*                    DEM sampler: properties                              *)
(***************************************************************************)

\* The DEM is unrotated, north-up and geographic (no projection set)
NorthUpGeographic(d) ==
    /\ ~d.has_proj
    /\ d.transform.rotation_x = 0 /\ d.transform.rotation_y = 0
    /\ d.transform.pixel_width > 0 /\ d.transform.pixel_height < 0

\* What a lookup that reads cell (c, r) of the raster reports for it (0-based)
CellReport(d, c, r) ==
    LET value == d.data[r * d.width + c + 1]
    IN  IF value.nan \/ NearNodata(d, value) THEN NaN ELSE value

\* Point i of the batch lies at the geographic centre of cell (c, r)
AtCentre(d, i, c, r) ==
    PairEq(<<Rat(lons[i], 1), Rat(lats[i], 1)>>,
           pixel_to_geo(d.transform, Rat(2 * c + 1, 2), Rat(2 * r + 1, 2)))

\* C1: for an unrotated north-up geographic DEM, the lookup at the geographic
\* centre of raster cell (c, r) returns the value of cell (c, r); in particular
\* the 3x3 raster {100,110,120} with origin (0,3), pixel (1,-1) returns 110 at
\* (lat=2.5, lon=1.5).
C1_CentreReturnsCell ==
    (dem_pc = "done" /\ NorthUpGeographic(dem)) =>
        \A i \in 1..Len(lats) :
            \A c \in 0..(dem.width - 1), r \in 0..(dem.height - 1) :
                AtCentre(dem, i, c, r) => altitudes[i] = CellReport(dem, c, r)

\* C2: NaN only for out-of-bounds pixel coordinates, a failed projection, or a
\* cell read that is NaN or within 0.01 of nodata; every in-bounds point whose
\* nearest cell holds valid data yields the value of cell (round(col), round(row)).
C2_NanOnlyWhen ==
    dem_pc = "done" =>
        \A i \in 1..Len(lats) :
            LET o  == projected[i]
                cr == geo_to_pixel(dem.transform, o.x, o.y)
                cn == RoundAsUsize(cr[1])
                rn == RoundAsUsize(cr[2])
                cellRead == cn < dem.width /\ rn < dem.height
                inBounds == o.ok /\ ~OutOfBounds(dem, cr[1], cr[2])
            IN  /\ altitudes[i].nan =>
                     \/ ~o.ok
                     \/ OutOfBounds(dem, cr[1], cr[2])
                     \/ (cellRead /\ CellReport(dem, cn, rn).nan)
                /\ (inBounds /\ cellRead /\ ~CellReport(dem, cn, rn).nan) =>
                     altitudes[i] = dem.data[rn * dem.width + cn + 1]

\* C10: batch_lookup errors when lats and lons differ in length; otherwise it
\* returns one altitude per input point in input order, a failed projection
\* contributing NaN at its own index without shifting the other lookups.
C10_OnePerPoint ==
    /\ dem_pc = "error" => Len(lats) # Len(lons)
    /\ dem_pc \in {"loop", "done"} => Len(lats) = Len(lons)
    /\ dem_pc = "loop" => Len(altitudes) = Len(projected)
    /\ dem_pc = "done" =>
          /\ Len(altitudes) = Len(lats)
          /\ \A i \in 1..Len(lats) :
                /\ ~dem.has_proj => (projected[i].x = lons[i] /\ projected[i].y = lats[i])
                /\ altitudes[i] = IF projected[i].ok
                                  THEN SampleAt(dem, projected[i].x, projected[i].y)
                                  ELSE NaN

\* A two-point batch whose first projection failed and whose second found a value
C10_Witness ==
    /\ dem_pc = "done" /\ Len(lats) = 2
    /\ ~projected[1].ok /\ altitudes[1].nan
    /\ projected[2].ok /\ ~altitudes[2].nan

\* A batch with differing lengths ended in the error
C10_WitnessError == dem_pc = "error" /\ Len(lats) = 2 /\ Len(lons) = 1

(***************************************************************************)
(*                              Validator                                  *)
(***************************************************************************)

\* security.rs:14, 20: minimum blob length and minimum header size
FitHeaderMin == 12

\* security.rs:36: 50 MB limit
MaxFitSize == 50000000

\* security.rs:26: highest protocol version byte that does not warn
KnownProtocolMax == 20

\* ASCII ".FIT"
FitSignature == <<46, 70, 73, 84>>

\* Lengths, header-size bytes, protocol bytes and signatures the blobs are built from
BlobLens == {0, 1, 11, 12, 13, 14, 255, 256, MaxFitSize - 1, MaxFitSize, MaxFitSize + 1}
HeaderBytes == {0, 11, 12, 13, 14, 255}
ProtocolBytes == {16, 20, 21, 32, 255}
Signatures == {FitSignature, <<46, 70, 73, 88>>, <<70, 73, 84, 46>>, <<0, 0, 0, 0>>}

\* A blob: its length and its first min(len, 12) bytes
Blob(n, b0, b1, sig) ==
    [len |-> n, head |-> SubSeq(<<b0, b1, 0, 0, 0, 0, 0, 0>> \o sig, 1, Min(n, 12))]

\* header_size > data.len() weakened to header_size >= data.len() + 1 being dropped
validate_fit_data_NoLenCheck(b) ==
    IF b.len < FitHeaderMin THEN [result |-> "Err", warned |-> FALSE]
    ELSE IF b.head[1] < FitHeaderMin THEN [result |-> "Err", warned |-> FALSE]
    ELSE LET warned == b.head[2] > KnownProtocolMax
         IN  IF b.len >= 12 /\ SubSeq(b.head, 9, 12) # FitSignature
             THEN [result |-> "Err", warned |-> warned]
             ELSE IF b.len > MaxFitSize THEN [result |-> "Err", warned |-> warned]
             ELSE [result |-> "Ok", warned |-> warned]

\* ---- SecurityValidator::validate_fit_data (security.rs:13-41)
validate_fit_data(b) ==
    IF b.len < FitHeaderMin THEN [result |-> "Err", warned |-> FALSE]
    ELSE IF b.head[1] < FitHeaderMin \/ b.head[1] > b.len
         THEN [result |-> "Err", warned |-> FALSE]
    ELSE LET warned == b.head[2] > KnownProtocolMax
         IN  IF b.len >= 12 /\ SubSeq(b.head, 9, 12) # FitSignature
             THEN [result |-> "Err", warned |-> warned]
             ELSE IF b.len > MaxFitSize THEN [result |-> "Err", warned |-> warned]
             ELSE [result |-> "Ok", warned |-> warned]

InitValidate ==
    /\ \E n \in BlobLens, b0 \in HeaderBytes, b1 \in ProtocolBytes, sig \in Signatures :
          blob = Blob(n, b0, b1, sig)
    /\ val_pc = "call"
    /\ val_result = "none"
    /\ val_warned = FALSE
    /\ ValOthersIdle

ValidateFitData ==
    /\ val_pc = "call"
    /\ val_result' = validate_fit_data(blob).result
    /\ val_warned' = validate_fit_data(blob).warned
    /\ val_pc' = "done"
    /\ UNCHANGED blob
    /\ UNCHANGED ValOthers

NextValidate == ValidateFitData

SpecValidate == InitValidate /\ [][NextValidate]_vars

\* C3: validate_fit_data returns Ok exactly when len >= 12, 12 <= data[0] <= len,
\* bytes [8..12] are ".FIT" and len <= 50,000,000; otherwise an error; the
\* protocol-version byte never changes the outcome.
C3_ValidateExactly ==
    val_pc = "done" =>
        /\ val_result \in {"Ok", "Err"}
        /\ val_result = "Ok" <=>
              /\ blob.len >= 12
              /\ 12 <= blob.head[1] /\ blob.head[1] <= blob.len
              /\ \A k \in 1..4 : blob.head[8 + k] = FitSignature[k]
              /\ blob.len <= 50000000

\* An accepted blob with an unknown protocol version: warned, and still Ok
C3_Witness ==
    /\ val_pc = "done" /\ val_result = "Ok" /\ val_warned
    /\ blob.head[2] > 20 /\ blob.len = 50000000


(***************************************************************************)
(*              FitParserWrapper::parse and parse_fit_file                 *)
(*                                                                         *)
(* The fitparser crate decodes the bytes; the wrapper sees its result, a   *)
(* list of FitDataRecords (kind, ordered named fields).  Times are whole   *)
(* numbers of one unit (timestamps and elapsed times alike).               *)
(***************************************************************************)

\* Most messages in one file
MaxFitMsgs == 2

\* Option<f64>
None == [some |-> FALSE, v |-> 0]
Some(x) == [some |-> TRUE, v |-> x]
UnwrapOr(o, dflt) == IF o.some THEN o.v ELSE dflt

\* fitparser::Value: a numeric variant, or one extract_f64_value has no arm for
Num(x) == [num |-> TRUE, v |-> x]
NonNumeric == [num |-> FALSE, v |-> 0]

Fld(name, value) == [name |-> name, value |-> value]

\* ---- FitParserWrapper::extract_f64_value (fitparser_wrapper.rs:533-556)
extract_f64_value(value) == IF value.num THEN Some(value.v) ELSE None

\* fitparser_wrapper.rs:250-265: the locals of extract_record before the loop
RecordLocals == [timestamp |-> None, distance |-> None, altitude |-> None,
                 speed |-> None, power |-> None]

\* fitparser_wrapper.rs:272-370: the match arm one field takes
RecordArm(acc, f) ==
    CASE f.name = "timestamp" -> [acc EXCEPT !.timestamp = extract_f64_value(f.value)]
      [] f.name = "distance" -> [acc EXCEPT !.distance = extract_f64_value(f.value)]
      [] f.name \in {"altitude", "enhanced_altitude"} ->
             [acc EXCEPT !.altitude = extract_f64_value(f.value)]
      [] f.name \in {"speed", "enhanced_speed"} ->
             [acc EXCEPT !.speed = extract_f64_value(f.value)]
      [] f.name = "power" -> [acc EXCEPT !.power = extract_f64_value(f.value)]
      [] OTHER -> acc

\* fitparser_wrapper.rs:270-371: the loop over message.fields()
RECURSIVE FoldRecordFields(_, _, _)
FoldRecordFields(acc, fields, k) ==
    IF k > Len(fields) THEN acc
    ELSE FoldRecordFields(RecordArm(acc, fields[k]), fields, k + 1)

\* ---- FitParserWrapper::extract_record (fitparser_wrapper.rs:249-394)
\* Returns Option<FitRecord>: [some, v]
extract_record(fields) ==
    LET acc == FoldRecordFields(RecordLocals, fields, 1)
    IN  IF acc.timestamp.some
        THEN Some([timestamp |-> acc.timestamp.v, distance |-> acc.distance,
                   altitude |-> acc.altitude, speed |-> acc.speed, power |-> acc.power])
        ELSE None

\* fitparser_wrapper.rs:397-414
LapLocals == [start_time |-> None, lap_timestamp |-> None, total_elapsed_time |-> None,
              total_distance |-> None]

\* fitparser_wrapper.rs:417-466
LapArm(acc, f) ==
    CASE f.name = "start_time" -> [acc EXCEPT !.start_time = extract_f64_value(f.value)]
      [] f.name = "timestamp" -> [acc EXCEPT !.lap_timestamp = extract_f64_value(f.value)]
      [] f.name = "total_elapsed_time" ->
             [acc EXCEPT !.total_elapsed_time = extract_f64_value(f.value)]
      [] f.name = "total_distance" ->
             [acc EXCEPT !.total_distance = extract_f64_value(f.value)]
      [] OTHER -> acc

\* fitparser_wrapper.rs:416-471: the loop over message.fields()
RECURSIVE FoldLapFields(_, _, _)
FoldLapFields(acc, fields, k) ==
    IF k > Len(fields) THEN acc
    ELSE FoldLapFields(LapArm(acc, fields[k]), fields, k + 1)

\* fitparser_wrapper.rs:486, 509: ensure ordering start <= end
Normalize(st, et) == IF st <= et THEN <<st, et>> ELSE <<et, st>>

MkLap(se, elapsed, acc) ==
    Some([start_time |-> se[1], end_time |-> se[2], total_elapsed_time |-> elapsed,
          total_distance |-> UnwrapOr(acc.total_distance, 0)])

\* extract_lap taking the lap message's timestamp as the end of the lap
extract_lap_EndIsTimestamp(fields) ==
    LET acc == FoldLapFields(LapLocals, fields, 1)
    IN  IF acc.start_time.some /\ acc.total_elapsed_time.some
        THEN LET st == acc.start_time.v
                 et == IF acc.lap_timestamp.some THEN acc.lap_timestamp.v
                       ELSE st + acc.total_elapsed_time.v
             IN  MkLap(Normalize(st, et), acc.total_elapsed_time.v, acc)
        ELSE IF acc.lap_timestamp.some /\ acc.total_elapsed_time.some
        THEN LET st == acc.lap_timestamp.v - acc.total_elapsed_time.v
                 et == acc.lap_timestamp.v
             IN  MkLap(Normalize(st, et), acc.total_elapsed_time.v, acc)
        ELSE None

\* ---- FitParserWrapper::extract_lap (fitparser_wrapper.rs:396-531)
extract_lap(fields) ==
    LET acc == FoldLapFields(LapLocals, fields, 1)
    IN  IF acc.start_time.some /\ acc.total_elapsed_time.some
        THEN LET st == acc.start_time.v
                 et == st + acc.total_elapsed_time.v
             IN  MkLap(Normalize(st, et), acc.total_elapsed_time.v, acc)
        ELSE IF acc.lap_timestamp.some /\ acc.total_elapsed_time.some
        THEN LET st == acc.lap_timestamp.v - acc.total_elapsed_time.v
                 et == acc.lap_timestamp.v
             IN  MkLap(Normalize(st, et), acc.total_elapsed_time.v, acc)
        ELSE None

\* ---- the messages a file may hold
TsVals == {1, 2, 3}

RecordTails ==
    { <<>>,
      <<Fld("altitude", Num(100)), Fld("enhanced_altitude", Num(200))>>,
      <<Fld("enhanced_altitude", Num(200)), Fld("altitude", Num(100))>>,
      <<Fld("altitude", Num(100)), Fld("enhanced_altitude", NonNumeric)>>,
      <<Fld("enhanced_altitude", NonNumeric), Fld("altitude", Num(100))>>,
      <<Fld("speed", Num(5)), Fld("enhanced_speed", Num(7))>>,
      <<Fld("enhanced_speed", Num(7)), Fld("speed", Num(5))>>,
      <<Fld("power", Num(250)), Fld("distance", Num(40))>> }

RecordMsgs ==
    {[kind |-> "record", fields |-> <<Fld("timestamp", Num(t))>> \o tail] :
        t \in TsVals, tail \in RecordTails}
    \cup {[kind |-> "record", fields |-> <<Fld("altitude", Num(100))>>]}

OptField(name, o) == IF o.some THEN <<Fld(name, Num(o.v))>> ELSE <<>>

LapMsgs ==
    {[kind |-> "lap",
      fields |-> OptField("timestamp", ts) \o OptField("start_time", st)
                 \o OptField("total_elapsed_time", el)] :
        ts \in {None, Some(20)}, st \in {None, Some(10)},
        el \in {None, Some(-2), Some(0), Some(5)}}

OtherMsgs == {[kind |-> "session", fields |-> <<Fld("timestamp", Num(1))>>]}

FitMsgs == RecordMsgs \cup LapMsgs \cup OtherMsgs

InitWrapper ==
    /\ fit_data \in SeqsUpTo(MaxFitMsgs, FitMsgs)
    /\ w_i = 0
    /\ w_records = <<>>
    /\ w_laps = <<>>
    /\ w_out = [timestamps |-> <<>>]
    /\ w_pc = "loop"
    /\ WrapOthersIdle

\* The message the loop of parse is at
CurMsg == fit_data[w_i + 1]

\* fitparser_wrapper.rs:160-227: a record message; msg is the index of its message
WrapRecord ==
    /\ w_pc = "loop" /\ w_i < Len(fit_data)
    /\ CurMsg.kind = "record"
    /\ LET r == extract_record(CurMsg.fields)
       IN  w_records' = IF r.some
                        THEN Append(w_records, [msg |-> w_i + 1, rec |-> r.v])
                        ELSE w_records
    /\ w_i' = w_i + 1
    /\ UNCHANGED <<fit_data, w_laps, w_out, w_pc>>
    /\ UNCHANGED WrapOthers

\* fitparser_wrapper.rs:228-236
WrapLap ==
    /\ w_pc = "loop" /\ w_i < Len(fit_data)
    /\ CurMsg.kind = "lap"
    /\ LET l == extract_lap(CurMsg.fields)
       IN  w_laps' = IF l.some THEN Append(w_laps, [msg |-> w_i + 1, lap |-> l.v])
                     ELSE w_laps
    /\ w_i' = w_i + 1
    /\ UNCHANGED <<fit_data, w_records, w_out, w_pc>>
    /\ UNCHANGED WrapOthers

\* fitparser_wrapper.rs:237
WrapSkip ==
    /\ w_pc = "loop" /\ w_i < Len(fit_data)
    /\ CurMsg.kind \notin {"record", "lap"}
    /\ w_i' = w_i + 1
    /\ UNCHANGED <<fit_data, w_records, w_laps, w_out, w_pc>>
    /\ UNCHANGED WrapOthers

\* fit_parser.rs:311-325: the arrays parse_fit_file builds from the records
Timestamps(recs) == [k \in 1..Len(recs) |-> recs[k].rec.timestamp]

\* fit_parser.rs:365-369
Duration(ts) == IF Len(ts) > 0 THEN ts[Len(ts)] - ts[1] ELSE 0

\* fitparser_wrapper.rs:246 and fit_parser.rs:293-396
ParseFitFileReturn ==
    /\ w_pc = "loop" /\ w_i = Len(fit_data)
    /\ w_out' = [timestamps |-> Timestamps(w_records),
                 altitude |-> [k \in 1..Len(w_records) |->
                                  UnwrapOr(w_records[k].rec.altitude, 0)],
                 velocity |-> [k \in 1..Len(w_records) |->
                                  UnwrapOr(w_records[k].rec.speed, 0)],
                 record_count |-> Len(w_records),
                 lap_count |-> Len(w_laps),
                 duration_seconds |-> Duration(Timestamps(w_records))]
    /\ w_pc' = "done"
    /\ UNCHANGED <<fit_data, w_i, w_records, w_laps>>
    /\ UNCHANGED WrapOthers

NextWrapper ==
    \/ WrapRecord
    \/ WrapLap
    \/ WrapSkip
    \/ ParseFitFileReturn

SpecWrapper == InitWrapper /\ [][NextWrapper]_vars

(***************************************************************************)
(*                    FitParserWrapper: properties                         *)
(***************************************************************************)

NonDecreasing(ts) == \A k \in 1..(Len(ts) - 1) : ts[k] <= ts[k + 1]

\* C4: the timestamps array parse_fit_file returns is in non-decreasing order
\* whatever the order of the record messages in the file, so duration_seconds
\* is never negative.
C4_TimestampsSorted ==
    w_pc = "done" =>
        /\ NonDecreasing(w_out.timestamps)
        /\ w_out.duration_seconds >= 0

\* C6 as claimed: every lap extract_lap materializes has
\* end_time = start_time + total_elapsed_time, negative elapsed times included.
C6_EndIsStartPlusElapsed ==
    \A k \in 1..Len(w_laps) :
        w_laps[k].lap.end_time = w_laps[k].lap.start_time + w_laps[k].lap.total_elapsed_time

\* C6 as amended: every lap extract_lap materializes has start_time <= end_time and
\* end_time = start_time + |total_elapsed_time|: end = start + elapsed when the
\* elapsed time is not negative, and the two ends swapped when it is.
C6_EndIsStartPlusAbsElapsed ==
    \A k \in 1..Len(w_laps) :
        LET l == w_laps[k].lap
        IN  /\ l.start_time <= l.end_time
            /\ l.end_time = l.start_time + Abs(l.total_elapsed_time)
            /\ l.total_elapsed_time >= 0 => l.end_time = l.start_time + l.total_elapsed_time

\* A lap from start_time and a positive elapsed time whose message timestamp differs
\* from start + elapsed, and a lap with a negative elapsed time
C6_Witness ==
    /\ Len(w_laps) = 2
    /\ w_laps[1].lap.total_elapsed_time > 0
    /\ fit_data[1].fields = <<Fld("timestamp", Num(20)), Fld("start_time", Num(10)),
                              Fld("total_elapsed_time", Num(5))>>
    /\ w_laps[2].lap.total_elapsed_time < 0

\* The fields of message m named name
Named(m, name) == {k \in 1..Len(m.fields) : m.fields[k].name = name}

\* Message m carries both fields once, each with a numeric value
BothValid(m, legacy, enhanced) ==
    /\ \E k \in Named(m, legacy) : m.fields[k].value.num
    /\ \E k \in Named(m, enhanced) : m.fields[k].value.num

EnhancedValue(m, enhanced) ==
    LET k == CHOOSE j \in Named(m, enhanced) : TRUE IN m.fields[k].value.v

\* Message m carries an enhanced field without a value and a legacy field with one
EnhancedInvalid(m, legacy, enhanced) ==
    /\ \E k \in Named(m, legacy) : m.fields[k].value.num
    /\ Named(m, enhanced) # {}
    /\ \A k \in Named(m, enhanced) : ~m.fields[k].value.num

\* C8: for altitude and for speed, a record message carrying both the legacy and
\* the enhanced field with valid values yields the enhanced value whatever the
\* order of the two fields; with the enhanced field invalid and the legacy field
\* valid the record still holds a value.
C8_EnhancedPreferred ==
    \A k \in 1..Len(w_records) :
        LET m == fit_data[w_records[k].msg]
            r == w_records[k].rec
        IN  /\ BothValid(m, "altitude", "enhanced_altitude") =>
                  r.altitude = Some(EnhancedValue(m, "enhanced_altitude"))
            /\ BothValid(m, "speed", "enhanced_speed") =>
                  r.speed = Some(EnhancedValue(m, "enhanced_speed"))
            /\ EnhancedInvalid(m, "altitude", "enhanced_altitude") => r.altitude.some
            /\ EnhancedInvalid(m, "speed", "enhanced_speed") => r.speed.some


(***************************************************************************)
(*                             FitDecoder                                  *)
(*                                                                         *)
(* Bytes are 0..255; data is the 1-based sequence of the buffer and        *)
(* position the 0-based cursor of the source.  A 32-bit quantity is kept   *)
(* as two 16-bit limbs [hi, lo] (value = 65536*hi + lo), and so is every   *)
(* f64 derived from one by adding a constant.  Signed values keep their    *)
(* two's-complement bits.  Derived f64 fields are held exactly in the      *)
(* finer unit: altitude in 1/5 m (raw - 2500), speed in mm/s, distance in  *)
(* cm, durations in ms, positions in semicircles.                          *)
(***************************************************************************)

\* Most messages (chunks) in one stream
MaxChunks == 3

\* fit_decoder.rs:6
FIT_HEADER_MIN_SIZE == 12
\* fit_decoder.rs:11-12
FIT_MESSAGE_RECORD == 20
FIT_MESSAGE_LAP == 19
\* fit_decoder.rs:16-24
FIELD_TIMESTAMP == 253
FIELD_POSITION_LAT == 0
FIELD_POSITION_LONG == 1
FIELD_ALTITUDE == 2
FIELD_ENHANCED_ALTITUDE == 78
FIELD_SPEED == 6
FIELD_ENHANCED_SPEED == 73
FIELD_POWER == 7
FIELD_DISTANCE == 5
\* fit_decoder.rs:27-34
FIELD_LAP_START_TIME == 2
FIELD_LAP_TOTAL_ELAPSED_TIME == 7
FIELD_LAP_TOTAL_DISTANCE == 9
\* fit_decoder.rs:44
FIT_TIME_EPOCH == 631065600
\* fit_decoder.rs:259
MaxFieldCount == 100
\* fit_decoder.rs:283
MaxFieldSize == 8

\* ---- two-limb numbers
W(hi, lo) == [hi |-> hi, lo |-> lo]
WFromInt(n) == W(n \div 65536, n % 65536)
WAdd(a, b) == W(a.hi + b.hi + (a.lo + b.lo) \div 65536, (a.lo + b.lo) % 65536)
WLe(a, b) == a.hi < b.hi \/ (a.hi = b.hi /\ a.lo <= b.lo)

NoneW == [some |-> FALSE, v |-> W(0, 0)]

\* ---- byteorder::LittleEndian reads at 0-based offset p. An index at or
\* past the end of the buffer panics; every result below carries read_end, one
\* past the highest index its call has read (0 when it read nothing)
Byte(d, p) == IF p < Len(d) THEN d[p + 1] ELSE 0
Max(a, b) == IF a >= b THEN a ELSE b
ReadU16(d, p) == Byte(d, p) + 256 * Byte(d, p + 1)
ReadU32(d, p) == W(ReadU16(d, p + 2), ReadU16(d, p))

\* ---- enum FieldValue (fit_decoder.rs:540-548): the variant and the value's bits
FV(t, w) == [t |-> t, hi |-> w.hi, lo |-> w.lo]
Invalid == FV("Invalid", W(0, 0))
Bits(fv) == W(fv.hi, fv.lo)

\* `as i8` then `as i16`: sign extension of a byte to 16 bits
SignExtend8(b) == IF b >= 128 THEN 65280 + b ELSE b

\* i16 bits to the signed value
Signed16(x) == IF x >= 32768 THEN x - 65536 ELSE x

\* The field is read, whatever its type, then the cursor moves by its size
Sized(value, pos, size, width) ==
    [err |-> FALSE, value |-> value, position |-> pos + size,
     read_end |-> IF width = 0 THEN 0 ELSE pos + width]

\* read_field_value without the 0xFFFF test of the u16 arm
read_field_value_NoU16Sentinel(d, pos, field) ==
    IF pos + field.size > Len(d)
    THEN [err |-> TRUE, value |-> Invalid, position |-> pos, read_end |-> 0]
    ELSE IF field.size = 0
    THEN [err |-> FALSE, value |-> Invalid, position |-> pos, read_end |-> 0]
    ELSE LET bt == field.base_type % 16
             sz == field.size
         IN  CASE bt \in {0, 2} ->
                    Sized(IF Byte(d, pos) = 255 THEN Invalid
                          ELSE FV("UInt8", W(0, Byte(d, pos))), pos, sz, 1)
               [] bt = 1 ->
                    Sized(IF Byte(d, pos) = 127 THEN Invalid
                          ELSE FV("SInt16", W(0, SignExtend8(Byte(d, pos)))), pos, sz, 1)
               [] bt = 3 ->
                    Sized(IF sz >= 2
                          THEN (IF ReadU16(d, pos) = 32767 THEN Invalid
                                ELSE FV("SInt16", W(0, ReadU16(d, pos))))
                          ELSE Invalid, pos, sz, IF sz >= 2 THEN 2 ELSE 0)
               [] bt = 4 ->
                    Sized(IF sz >= 2
                          THEN FV("UInt16", W(0, ReadU16(d, pos)))
                          ELSE Invalid, pos, sz, IF sz >= 2 THEN 2 ELSE 0)
               [] bt = 5 ->
                    Sized(IF sz >= 4
                          THEN (IF ReadU32(d, pos) = W(32767, 65535) THEN Invalid
                                ELSE FV("SInt32", ReadU32(d, pos)))
                          ELSE Invalid, pos, sz, IF sz >= 4 THEN 4 ELSE 0)
               [] bt = 6 ->
                    Sized(IF sz >= 4
                          THEN (IF ReadU32(d, pos) = W(65535, 65535) THEN Invalid
                                ELSE FV("UInt32", ReadU32(d, pos)))
                          ELSE Invalid, pos, sz, IF sz >= 4 THEN 4 ELSE 0)
               [] OTHER -> Sized(Invalid, pos, sz, 0)

\* read_field_value without the test of position + size against the length
read_field_value_NoBoundsCheck(d, pos, field) ==
    IF field.size = 0
    THEN [err |-> FALSE, value |-> Invalid, position |-> pos, read_end |-> 0]
    ELSE LET bt == field.base_type % 16
             sz == field.size
         IN  CASE bt \in {0, 2} ->
                    Sized(IF Byte(d, pos) = 255 THEN Invalid
                          ELSE FV("UInt8", W(0, Byte(d, pos))), pos, sz, 1)
               [] bt = 1 ->
                    Sized(IF Byte(d, pos) = 127 THEN Invalid
                          ELSE FV("SInt16", W(0, SignExtend8(Byte(d, pos)))), pos, sz, 1)
               [] bt = 3 ->
                    Sized(IF sz >= 2
                          THEN (IF ReadU16(d, pos) = 32767 THEN Invalid
                                ELSE FV("SInt16", W(0, ReadU16(d, pos))))
                          ELSE Invalid, pos, sz, IF sz >= 2 THEN 2 ELSE 0)
               [] bt = 4 ->
                    Sized(IF sz >= 2
                          THEN (IF ReadU16(d, pos) = 65535 THEN Invalid
                                ELSE FV("UInt16", W(0, ReadU16(d, pos))))
                          ELSE Invalid, pos, sz, IF sz >= 2 THEN 2 ELSE 0)
               [] bt = 5 ->
                    Sized(IF sz >= 4
                          THEN (IF ReadU32(d, pos) = W(32767, 65535) THEN Invalid
                                ELSE FV("SInt32", ReadU32(d, pos)))
                          ELSE Invalid, pos, sz, IF sz >= 4 THEN 4 ELSE 0)
               [] bt = 6 ->
                    Sized(IF sz >= 4
                          THEN (IF ReadU32(d, pos) = W(65535, 65535) THEN Invalid
                                ELSE FV("UInt32", ReadU32(d, pos)))
                          ELSE Invalid, pos, sz, IF sz >= 4 THEN 4 ELSE 0)
               [] OTHER -> Sized(Invalid, pos, sz, 0)

\* ---- FitDecoder::read_field_value (fit_decoder.rs:361-479)
\* Result: err (the Err return), value, and the cursor afterwards
read_field_value(d, pos, field) ==
    IF pos + field.size > Len(d)
    THEN [err |-> TRUE, value |-> Invalid, position |-> pos, read_end |-> 0]
    ELSE IF field.size = 0
    THEN [err |-> FALSE, value |-> Invalid, position |-> pos, read_end |-> 0]
    ELSE LET bt == field.base_type % 16
             sz == field.size
         IN  CASE bt \in {0, 2} ->
                    Sized(IF Byte(d, pos) = 255 THEN Invalid
                          ELSE FV("UInt8", W(0, Byte(d, pos))), pos, sz, 1)
               [] bt = 1 ->
                    Sized(IF Byte(d, pos) = 127 THEN Invalid
                          ELSE FV("SInt16", W(0, SignExtend8(Byte(d, pos)))), pos, sz, 1)
               [] bt = 3 ->
                    Sized(IF sz >= 2
                          THEN (IF ReadU16(d, pos) = 32767 THEN Invalid
                                ELSE FV("SInt16", W(0, ReadU16(d, pos))))
                          ELSE Invalid, pos, sz, IF sz >= 2 THEN 2 ELSE 0)
               [] bt = 4 ->
                    Sized(IF sz >= 2
                          THEN (IF ReadU16(d, pos) = 65535 THEN Invalid
                                ELSE FV("UInt16", W(0, ReadU16(d, pos))))
                          ELSE Invalid, pos, sz, IF sz >= 2 THEN 2 ELSE 0)
               [] bt = 5 ->
                    Sized(IF sz >= 4
                          THEN (IF ReadU32(d, pos) = W(32767, 65535) THEN Invalid
                                ELSE FV("SInt32", ReadU32(d, pos)))
                          ELSE Invalid, pos, sz, IF sz >= 4 THEN 4 ELSE 0)
               [] bt = 6 ->
                    Sized(IF sz >= 4
                          THEN (IF ReadU32(d, pos) = W(65535, 65535) THEN Invalid
                                ELSE FV("UInt32", ReadU32(d, pos)))
                          ELSE Invalid, pos, sz, IF sz >= 4 THEN 4 ELSE 0)
               [] OTHER -> Sized(Invalid, pos, sz, 0)

\* ---- FieldValue::as_timestamp (fit_decoder.rs:551-572): Unix seconds
as_timestamp(fv) ==
    IF fv.t = "UInt32"
    THEN (IF Bits(fv) = W(65535, 65535) THEN NoneW
          ELSE [some |-> TRUE, v |-> WAdd(Bits(fv), WFromInt(FIT_TIME_EPOCH))])
    ELSE IF fv.t = "UInt16"
    THEN (IF fv.lo = 65535 THEN NoneW
          ELSE [some |-> TRUE, v |-> WAdd(Bits(fv), WFromInt(FIT_TIME_EPOCH))])
    ELSE NoneW

\* ---- FieldValue::as_position (fit_decoder.rs:574-587): semicircle bits
as_position(fv) ==
    IF fv.t = "SInt32" /\ Bits(fv) # W(32767, 65535)
    THEN [some |-> TRUE, v |-> Bits(fv)] ELSE NoneW

\* ---- FieldValue::as_altitude (fit_decoder.rs:589-609): raw/5 - 500, in 1/5 m
as_altitude(fv) ==
    IF fv.t = "UInt16" /\ fv.lo # 65535 THEN Some(fv.lo - 2500)
    ELSE IF fv.t = "SInt16" /\ fv.lo # 32767 THEN Some(Signed16(fv.lo) - 2500)
    ELSE None

\* ---- FieldValue::as_speed (fit_decoder.rs:611-623): raw/1000 m/s, in mm/s
as_speed(fv) == IF fv.t = "UInt16" /\ fv.lo # 65535 THEN Some(fv.lo) ELSE None

\* ---- FieldValue::as_distance (fit_decoder.rs:625-637): raw/100 m, in cm
as_distance(fv) ==
    IF fv.t = "UInt32" /\ Bits(fv) # W(65535, 65535)
    THEN [some |-> TRUE, v |-> Bits(fv)] ELSE NoneW

\* ---- FieldValue::as_power (fit_decoder.rs:639-657): watts
as_power(fv) ==
    IF fv.t = "UInt16" /\ fv.lo # 65535 THEN Some(fv.lo)
    ELSE IF fv.t = "UInt8" /\ fv.lo # 255 THEN Some(fv.lo)
    ELSE None

\* ---- FieldValue::as_duration (fit_decoder.rs:659-671): raw/1000 s, in ms
as_duration(fv) ==
    IF fv.t = "UInt32" /\ Bits(fv) # W(65535, 65535)
    THEN [some |-> TRUE, v |-> Bits(fv)] ELSE NoneW

\* HashMap::get: Option<&FieldValue>
Get(fields, n) ==
    IF n \in DOMAIN fields THEN [some |-> TRUE, v |-> fields[n]]
    ELSE [some |-> FALSE, v |-> Invalid]

\* Option::or_else
OrElse(a, b) == IF a.some THEN a ELSE b

NoRecord == [some |-> FALSE,
             v |-> [timestamp |-> W(0, 0), distance |-> NoneW, position_lat |-> NoneW,
                    position_long |-> NoneW, altitude |-> None, speed |-> None,
                    power |-> None]]

\* ---- FitDecoder::create_record (fit_decoder.rs:481-513)
create_record(fields) ==
    LET timestamp == Get(fields, FIELD_TIMESTAMP)
        distance == Get(fields, FIELD_DISTANCE)
        lat == Get(fields, FIELD_POSITION_LAT)
        long == Get(fields, FIELD_POSITION_LONG)
        altitude == OrElse(Get(fields, FIELD_ENHANCED_ALTITUDE), Get(fields, FIELD_ALTITUDE))
        speed == OrElse(Get(fields, FIELD_ENHANCED_SPEED), Get(fields, FIELD_SPEED))
        power == Get(fields, FIELD_POWER)
    IN  IF ~timestamp.some \/ ~as_timestamp(timestamp.v).some THEN NoRecord
        ELSE [some |-> TRUE,
              v |-> [timestamp |-> as_timestamp(timestamp.v).v,
                     distance |-> IF distance.some THEN as_distance(distance.v) ELSE NoneW,
                     position_lat |-> IF lat.some THEN as_position(lat.v) ELSE NoneW,
                     position_long |-> IF long.some THEN as_position(long.v) ELSE NoneW,
                     altitude |-> IF altitude.some THEN as_altitude(altitude.v) ELSE None,
                     speed |-> IF speed.some THEN as_speed(speed.v) ELSE None,
                     power |-> IF power.some THEN as_power(power.v) ELSE None]]

NoLap == [some |-> FALSE,
          v |-> [start_time |-> W(0, 0), end_time |-> W(0, 0),
                 total_elapsed_time |-> W(0, 0), total_distance |-> W(0, 0)]]

\* ---- FitDecoder::create_lap (fit_decoder.rs:515-537)
create_lap(fields) ==
    LET start_timestamp == Get(fields, FIELD_TIMESTAMP)
        start_time == Get(fields, FIELD_LAP_START_TIME)
        elapsed_time == Get(fields, FIELD_LAP_TOTAL_ELAPSED_TIME)
        total_distance == Get(fields, FIELD_LAP_TOTAL_DISTANCE)
    IN  IF \/ ~start_timestamp.some \/ ~as_timestamp(start_timestamp.v).some
           \/ ~start_time.some \/ ~as_timestamp(start_time.v).some
           \/ ~elapsed_time.some \/ ~as_duration(elapsed_time.v).some
        THEN NoLap
        ELSE [some |-> TRUE,
              v |-> [start_time |-> as_timestamp(start_time.v).v,
                     end_time |-> as_timestamp(start_timestamp.v).v,
                     total_elapsed_time |-> as_duration(elapsed_time.v).v,
                     total_distance |->
                         UnwrapOr(IF total_distance.some THEN as_distance(total_distance.v)
                                  ELSE NoneW, W(0, 0))]]

\* HashMap::insert
\* MapInsert that keeps the value a key already has
MapInsert_KeepFirst(m, k, x) ==
    [n \in (DOMAIN m) \cup {k} |-> IF n \in DOMAIN m THEN m[n] ELSE x]

MapInsert(m, k, x) == [n \in (DOMAIN m) \cup {k} |-> IF n = k THEN x ELSE m[n]]

RECURSIVE ReadFieldDefs(_, _, _, _)
\* The field loop of read_definition_message (fit_decoder.rs:272-311): n
\* definitions still to read, acc the fields kept so far
ReadFieldDefs(d, pos, n, acc) ==
    IF n = 0 THEN [err |-> FALSE, position |-> pos, fields |-> acc, read_end |-> 0]
    ELSE IF pos + 3 > Len(d)
    THEN [err |-> TRUE, position |-> pos, fields |-> acc, read_end |-> 0]
    ELSE LET f == [field_number |-> Byte(d, pos), size |-> Byte(d, pos + 1),
                   base_type |-> Byte(d, pos + 2)]
             rest == ReadFieldDefs(d, pos + 3, n - 1,
                                   IF f.size > MaxFieldSize THEN acc ELSE Append(acc, f))
         IN  [rest EXCEPT !.read_end = Max(pos + 3, @)]

\* The sizes of all field definitions of a definition message, kept or not
\* (fit_decoder.rs:272-281: self.data[self.position + 1] of each triple)
DeclaredSizes(d, p1, n) == [i \in 1..n |-> Byte(d, p1 + 3 * (i - 1) + 1)]

\* read_definition_message that registers a definition without fields when it
\* rejects the field count or the field-definition bytes
read_definition_message_RegisterRejected(d, pos, defs, local) ==
    IF pos + 5 > Len(d)
    THEN [err |-> TRUE, position |-> pos, definitions |-> defs, read_end |-> 0]
    ELSE LET global_message_number == ReadU16(d, pos + 2)
             field_count == Byte(d, pos + 4)
             p1 == pos + 5
         IN  IF field_count > MaxFieldCount
             THEN [err |-> TRUE, position |-> p1, read_end |-> p1,
                   definitions |-> MapInsert(defs, local,
                       [message_type |-> global_message_number % 256, fields |-> <<>>,
                        global_message_number |-> global_message_number,
                        declared_sizes |-> <<>>])]
             ELSE IF p1 + field_count * 3 > Len(d)
             THEN [err |-> TRUE, position |-> p1, read_end |-> p1,
                   definitions |-> MapInsert(defs, local,
                       [message_type |-> global_message_number % 256, fields |-> <<>>,
                        global_message_number |-> global_message_number,
                        declared_sizes |-> <<>>])]
             ELSE LET r == ReadFieldDefs(d, p1, field_count, <<>>)
                  IN  IF r.err
                      THEN [err |-> TRUE, position |-> r.position, definitions |-> defs,
                            read_end |-> Max(p1, r.read_end)]
                      ELSE [err |-> FALSE, position |-> r.position,
                            read_end |-> Max(p1, r.read_end),
                            definitions |->
                                MapInsert(defs, local,
                                          [message_type |-> global_message_number % 256,
                                           fields |-> r.fields,
                                           global_message_number |->
                                               global_message_number,
                                           declared_sizes |->
                                               DeclaredSizes(d, p1, field_count)])]

\* ---- FitDecoder::read_definition_message (fit_decoder.rs:245-328)
read_definition_message(d, pos, defs, local) ==
    IF pos + 5 > Len(d)
    THEN [err |-> TRUE, position |-> pos, definitions |-> defs, read_end |-> 0]
    ELSE LET global_message_number == ReadU16(d, pos + 2)
             field_count == Byte(d, pos + 4)
             p1 == pos + 5
         IN  IF field_count > MaxFieldCount
             THEN [err |-> TRUE, position |-> p1, definitions |-> defs, read_end |-> p1]
             ELSE IF p1 + field_count * 3 > Len(d)
             THEN [err |-> TRUE, position |-> p1, definitions |-> defs, read_end |-> p1]
             ELSE LET r == ReadFieldDefs(d, p1, field_count, <<>>)
                  IN  IF r.err
                      THEN [err |-> TRUE, position |-> r.position, definitions |-> defs,
                            read_end |-> Max(p1, r.read_end)]
                      ELSE [err |-> FALSE, position |-> r.position,
                            read_end |-> Max(p1, r.read_end),
                            definitions |->
                                MapInsert(defs, local,
                                          [message_type |-> global_message_number % 256,
                                           fields |-> r.fields,
                                           global_message_number |->
                                               global_message_number,
                                           declared_sizes |->
                                               DeclaredSizes(d, p1, field_count)])]

RECURSIVE ReadFields(_, _, _, _, _)
\* The field loop of read_data_message (fit_decoder.rs:337-340)
ReadFields(d, pos, fields, i, fv) ==
    IF i > Len(fields)
    THEN [err |-> FALSE, position |-> pos, field_values |-> fv, read_end |-> 0]
    ELSE LET After(r) ==
                 IF r.err
                 THEN [err |-> TRUE, position |-> r.position, field_values |-> fv,
                       read_end |-> r.read_end]
                 ELSE LET rest == ReadFields(d, r.position, fields, i + 1,
                                             MapInsert(fv, fields[i].field_number, r.value))
                      IN  [rest EXCEPT !.read_end = Max(r.read_end, @)]
         \* the field is read once, then the loop goes on from its result
         IN  CHOOSE x \in {After(r) : r \in {read_field_value(d, pos, fields[i])}} : TRUE

\* What read_message hands back, with the cursor and the definitions afterwards
Msg(err, kind, pos, defs, mt, fv, rec, lap, read_end) ==
    [err |-> err, kind |-> kind, position |-> pos, definitions |-> defs,
     message_type |-> mt, field_values |-> fv, rec |-> rec, lap |-> lap,
     read_end |-> read_end]

\* ---- FitDecoder::read_data_message (fit_decoder.rs:330-359)
read_data_message(d, pos, defs, local) ==
    IF local \notin DOMAIN defs
    THEN Msg(TRUE, "data", pos, defs, 0, <<>>, NoRecord.v, NoLap.v, 0)
    ELSE LET definition == defs[local]
             mt == definition.message_type
             Decoded(r) ==
                 LET fv == r.field_values
                 IN  IF r.err
                     THEN Msg(TRUE, "data", r.position, defs, mt, fv, NoRecord.v, NoLap.v,
                              r.read_end)
                     ELSE IF mt = FIT_MESSAGE_RECORD
                     THEN Msg(FALSE, IF create_record(fv).some THEN "record" ELSE "none",
                              r.position, defs, mt, fv, create_record(fv).v, NoLap.v,
                              r.read_end)
                     ELSE IF mt = FIT_MESSAGE_LAP
                     THEN Msg(FALSE, IF create_lap(fv).some THEN "lap" ELSE "none",
                              r.position, defs, mt, fv, NoRecord.v, create_lap(fv).v,
                              r.read_end)
                     ELSE Msg(FALSE, "none", r.position, defs, mt, fv, NoRecord.v, NoLap.v,
                              r.read_end)
         \* the fields are read once, then the message is built from them
         IN  CHOOSE m \in {Decoded(r) : r \in {ReadFields(d, pos, definition.fields, 1, <<>>)}} :
                 TRUE

\* ---- FitDecoder::read_message (fit_decoder.rs:206-243)
read_message(d, pos, defs) ==
    IF pos >= Len(d) THEN Msg(FALSE, "end", pos, defs, 0, <<>>, NoRecord.v, NoLap.v, 0)
    ELSE LET record_header == Byte(d, pos)
             p1 == pos + 1
             m == IF record_header >= 128
                  THEN read_data_message(d, p1, defs, (record_header % 128) \div 32)
                  ELSE IF (record_header \div 64) % 2 = 1
                  THEN LET r == read_definition_message(d, p1, defs, record_header % 16)
                       IN  Msg(r.err, "definition", r.position, r.definitions, 0, <<>>,
                               NoRecord.v, NoLap.v, r.read_end)
                  ELSE read_data_message(d, p1, defs, record_header % 16)
         IN  [m EXCEPT !.read_end = Max(p1, @)]

\* s with r put after every element whose timestamp is <= r's (s is sorted)
InsertStable(s, r) ==
    LET k == Cardinality({i \in 1..Len(s) : WLe(s[i].timestamp, r.timestamp)})
    IN  SubSeq(s, 1, k) \o <<r>> \o SubSeq(s, k + 1, Len(s))

RECURSIVE SortPrefix(_, _)
\* the first n records sorted; the sorted prefix is computed once per record
SortPrefix(rs, n) ==
    IF n = 0 THEN <<>>
    ELSE CHOOSE x \in {InsertStable(s, rs[n]) : s \in {SortPrefix(rs, n - 1)}} : TRUE

\* The records left in stream order
SortByTimestamp_Unsorted(rs) == rs

\* records.sort_by(|a, b| a.timestamp.partial_cmp(&b.timestamp).unwrap())
\* (fit_decoder.rs:201): a stable sort
SortByTimestamp(rs) == SortPrefix(rs, Len(rs))

\* ---- input streams: a header, up to MaxChunks messages, two CRC bytes
Header(n) == <<n, 16, 0, 0, 0, 0, 0, 0, 46, 70, 73, 84>> \o [i \in 1..(n - 12) |-> 0]
\* local 0: record with timestamp (u32) and power (u16)
DefRec == <<64, 0, 0, 20, 0, 2, 253, 4, 134, 7, 2, 132>>
RecA == <<0, 2, 0, 0, 0, 100, 0>>
RecB == <<0, 1, 0, 0, 0, 255, 255>>
\* local 1: lap with timestamp and total_elapsed_time only
DefLapNoStart == <<65, 0, 0, 19, 0, 2, 253, 4, 134, 7, 4, 134>>
LapNoStart == <<1, 10, 0, 0, 0, 136, 19, 0, 0>>
\* local 2: lap with timestamp, start_time and total_elapsed_time
DefLapStart == <<66, 0, 0, 19, 0, 3, 253, 4, 134, 2, 4, 134, 7, 4, 134>>
LapStart == <<2, 10, 0, 0, 0, 5, 0, 0, 0, 136, 19, 0, 0>>
\* local 3: record with timestamp, altitude and enhanced_altitude (invalid)
DefAlt == <<67, 0, 0, 20, 0, 3, 253, 4, 134, 2, 2, 132, 78, 2, 132>>
RecAlt == <<3, 3, 0, 0, 0, 184, 11, 255, 255>>
Chunks == {DefRec, RecA, RecB, DefLapNoStart, LapNoStart, DefLapStart, LapStart,
           DefAlt, RecAlt}
Crc == <<0, 0>>

RECURSIVE Concat(_)
Concat(ss) == IF ss = <<>> THEN <<>> ELSE Head(ss) \o Concat(Tail(ss))

Streams == {Header(n) \o Concat(cs) \o Crc : n \in {12, 14}, cs \in SeqsUpTo(MaxChunks, Chunks)}

\* ---- FitDecoder::new (fit_decoder.rs:92-129) on an accepted buffer
InitDecoder ==
    /\ DecOthersIdle
    /\ data \in Streams
    /\ position = 0
    /\ definitions = <<>>
    /\ records = <<>>
    /\ laps = <<>>
    /\ decoded = <<>>
    /\ d_out = <<>>
    /\ d_pc = "new"

\* ---- FitDecoder::parse (fit_decoder.rs:131-204), one action per loop outcome
\* "Skip header" (fit_decoder.rs:133-134)
ParseBegin ==
    /\ d_pc = "new"
    /\ position' = (IF data[1] > FIT_HEADER_MIN_SIZE THEN data[1] ELSE FIT_HEADER_MIN_SIZE)
    /\ d_pc' = "parsing"
    /\ UNCHANGED <<data, definitions, records, laps, decoded, d_out, DecOthers>>

\* The loop condition (fit_decoder.rs:147)
Looping == d_pc = "parsing" /\ position < Len(data) - 2

CurMessage == read_message(data, position, definitions)

\* read_message indexes the buffer at or past its end: the thread panics and
\* parse takes no further step
ReadPanics == CurMessage.read_end > Len(data)

\* The header byte at the cursor: definition flag and local message type
HeaderIsDefinition ==
    Byte(data, position) < 128 /\ (Byte(data, position) \div 64) % 2 = 1
HeaderLocal ==
    IF Byte(data, position) >= 128 THEN (Byte(data, position) % 128) \div 32
    ELSE Byte(data, position) % 16

\* What parse saw of a data message: its definition's type, the values read,
\* the result, and the 16-bit global message number and the field sizes its
\* definition was read with
Entry(m) == [message_type |-> m.message_type, field_values |-> m.field_values,
             kind |-> m.kind, rec |-> m.rec, lap |-> m.lap,
             global_message_number |-> definitions[HeaderLocal].global_message_number,
             declared_sizes |-> definitions[HeaderLocal].declared_sizes]

\* Ok(None) out of a definition message
ParseDefinition ==
    /\ Looping /\ ~ReadPanics
    /\ ~CurMessage.err /\ CurMessage.kind = "definition"
    /\ position' = CurMessage.position
    /\ definitions' = CurMessage.definitions
    /\ UNCHANGED <<data, records, laps, decoded, d_out, d_pc, DecOthers>>

\* Ok(Some(FitMessage::Record(record)))
ParseRecord ==
    /\ Looping /\ ~ReadPanics
    /\ ~CurMessage.err /\ CurMessage.kind = "record"
    /\ position' = CurMessage.position
    /\ records' = Append(records, CurMessage.rec)
    /\ decoded' = Append(decoded, Entry(CurMessage))
    /\ UNCHANGED <<data, definitions, laps, d_out, d_pc, DecOthers>>

\* Ok(Some(FitMessage::Lap(lap)))
ParseLap ==
    /\ Looping /\ ~ReadPanics
    /\ ~CurMessage.err /\ CurMessage.kind = "lap"
    /\ position' = CurMessage.position
    /\ laps' = Append(laps, CurMessage.lap)
    /\ decoded' = Append(decoded, Entry(CurMessage))
    /\ UNCHANGED <<data, definitions, records, d_out, d_pc, DecOthers>>

\* Ok(None) out of a data message
ParseNone ==
    /\ Looping /\ ~ReadPanics
    /\ ~CurMessage.err /\ CurMessage.kind = "none"
    /\ position' = CurMessage.position
    /\ decoded' = Append(decoded, Entry(CurMessage))
    /\ UNCHANGED <<data, definitions, records, laps, d_out, d_pc, DecOthers>>

\* ParseError with the cursor put back where the message began
ParseError_Stalled ==
    /\ Looping /\ ~ReadPanics
    /\ CurMessage.err
    /\ position' = position
    /\ definitions' = CurMessage.definitions
    /\ UNCHANGED <<data, records, laps, decoded, d_out, d_pc, DecOthers>>

\* Err(e): skip one byte (fit_decoder.rs:180-191); the table is as read_message left it
ParseError ==
    /\ Looping /\ ~ReadPanics
    /\ CurMessage.err
    /\ position' = CurMessage.position + 1
    /\ definitions' = CurMessage.definitions
    /\ UNCHANGED <<data, records, laps, decoded, d_out, d_pc, DecOthers>>

\* Loop exit, sort and return (fit_decoder.rs:194-203)
ParseReturn ==
    /\ d_pc = "parsing"
    /\ ~(position < Len(data) - 2)
    /\ d_out' = [records |-> SortByTimestamp(records), laps |-> laps]
    /\ d_pc' = "done"
    /\ UNCHANGED <<data, position, definitions, records, laps, decoded, DecOthers>>

NextDecoder ==
    \/ ParseBegin
    \/ ParseDefinition
    \/ ParseRecord
    \/ ParseLap
    \/ ParseNone
    \/ ParseError
    \/ ParseReturn

SpecDecoder == InitDecoder /\ [][NextDecoder]_vars

\* Occurrences of x in s
Count(s, x) == Cardinality({i \in 1..Len(s) : s[i] = x})

\* C5: the records FitDecoder::parse returns are in non-decreasing timestamp
\* order and are a permutation of the records decoded in stream order; the
\* laps are returned as decoded.
C5_SortedPermutation ==
    d_pc = "done" =>
        /\ \A i \in 1..(Len(d_out.records) - 1) :
               WLe(d_out.records[i].timestamp, d_out.records[i + 1].timestamp)
        /\ Len(d_out.records) = Len(records)
        /\ \A i \in 1..Len(records) :
               Count(d_out.records, records[i]) = Count(records, records[i])
        /\ d_out.laps = laps

\* parse has returned records that were decoded out of timestamp order
C5_Witness ==
    /\ d_pc = "done"
    /\ Len(records) >= 2
    /\ \E i \in 1..(Len(records) - 1) : ~WLe(records[i].timestamp, records[i + 1].timestamp)
    /\ d_out.records # records

\* The byte at position is a data-message header (normal or compressed
\* timestamp) whose local message type has no definition
UndefinedLocalType ==
    /\ Looping
    /\ LET record_header == Byte(data, position)
       IN  \/ record_header >= 128
              /\ ((record_header % 128) \div 32) \notin DOMAIN definitions
           \/ record_header < 128 /\ (record_header \div 64) % 2 = 0
              /\ (record_header % 16) \notin DOMAIN definitions

\* C20: after a data-message header at offset p for an undefined local type
\* the next header is read at p + 1, and the definition table, the records
\* and the laps are unchanged.
C20_ResyncAtNextByte ==
    [][UndefinedLocalType =>
          /\ position' = position + 1
          /\ definitions' = definitions /\ records' = records /\ laps' = laps]_vars

\* A lap message read with a valid timestamp and total_elapsed_time and no start_time
LapWithoutStart(e) ==
    /\ e.message_type = FIT_MESSAGE_LAP
    /\ FIELD_TIMESTAMP \in DOMAIN e.field_values
    /\ as_timestamp(e.field_values[FIELD_TIMESTAMP]).some
    /\ FIELD_LAP_TOTAL_ELAPSED_TIME \in DOMAIN e.field_values
    /\ as_duration(e.field_values[FIELD_LAP_TOTAL_ELAPSED_TIME]).some
    /\ FIELD_LAP_START_TIME \notin DOMAIN e.field_values

\* Whole seconds of a duration below 2^31 ms
WholeSeconds(w) == WFromInt((65536 * w.hi + w.lo) \div 1000)

\* C7: a lap message with a timestamp and total_elapsed_time but no start_time
\* becomes a lap with end_time = timestamp and start_time = timestamp - elapsed
\* (checked on FitDecoder::create_lap, for elapsed times of whole seconds).
C7_LapDerivedFromTimestamp ==
    \A i \in 1..Len(decoded) :
        LapWithoutStart(decoded[i]) =>
            LET e == decoded[i]
                elapsed == as_duration(e.field_values[FIELD_LAP_TOTAL_ELAPSED_TIME]).v
            IN  /\ e.kind = "lap"
                /\ e.lap.end_time = as_timestamp(e.field_values[FIELD_TIMESTAMP]).v
                /\ elapsed.hi < 32768 =>
                       WAdd(e.lap.start_time, WholeSeconds(elapsed)) = e.lap.end_time

(***************************************************************************)
(* read_field_value on its own: one field definition read at the cursor of *)
(* a short buffer, and the record create_record makes of the value.        *)
(***************************************************************************)

\* Most bytes between the start of the buffer and the field
MaxPad == 1

FieldBytes == {0, 127, 128, 255}
FieldBuffers ==
    {<<b0, b1, b2, b3>> \o [i \in 1..MaxPad |-> 0] :
        b0 \in FieldBytes, b1 \in FieldBytes, b2 \in FieldBytes, b3 \in FieldBytes}
FieldSizes == {0, 1, 2, 3, 4, 5, 8}
FieldBaseTypes == {0, 1, 2, 3, 4, 5, 6, 7, 132, 134}
FieldNumbers == {FIELD_POWER, FIELD_TIMESTAMP}

InitField ==
    /\ FldOthersIdle
    /\ data \in FieldBuffers
    /\ position \in 0..MaxPad
    /\ fld \in [field_number : FieldNumbers, size : FieldSizes, base_type : FieldBaseTypes]
    /\ fld_value = [err |-> FALSE]
    /\ fld_record = [some |-> FALSE]
    /\ fld_pc = "init"

\* let value = self.read_field_value(field)?  (fit_decoder.rs:338)
ReadFieldValue ==
    /\ fld_pc = "init"
    /\ fld_value' = read_field_value(data, position, fld)
    /\ position' = read_field_value(data, position, fld).position
    /\ fld_pc' = "read"
    /\ UNCHANGED <<data, fld, fld_record, FldOthers>>

\* A record message of a timestamp and the field read (fit_decoder.rs:339-345)
CreateRecord ==
    /\ fld_pc = "read"
    /\ ~fld_value.err
    /\ fld_record' = create_record(MapInsert(MapInsert(<<>>, FIELD_TIMESTAMP,
                                                       FV("UInt32", W(0, 1))),
                                             fld.field_number, fld_value.value))
    /\ fld_pc' = "record"
    /\ UNCHANGED <<data, position, fld, fld_value, FldOthers>>

NextField ==
    \/ ReadFieldValue
    \/ CreateRecord

SpecField == InitField /\ [][NextField]_vars

\* ---- what the FIT base types 0..6 are: width in bytes, invalid sentinel
\* and variant, as the claim lists them
TypeWidth(bt) == CASE bt \in {0, 1, 2} -> 1 [] bt \in {3, 4} -> 2 [] OTHER -> 4
TypeSentinel(bt) ==
    CASE bt \in {0, 2} -> W(0, 255) [] bt = 1 -> W(0, 127)
      [] bt = 3 -> W(0, 32767) [] bt = 4 -> W(0, 65535)
      [] bt = 5 -> W(32767, 65535) [] OTHER -> W(65535, 65535)
\* The unsigned little-endian value of the w bytes at 0-based offset p
RawLE(d, p, w) ==
    CASE w = 1 -> W(0, d[p + 1])
      [] w = 2 -> W(0, d[p + 1] + 256 * d[p + 2])
      [] OTHER -> W(d[p + 3] + 256 * d[p + 4], d[p + 1] + 256 * d[p + 2])
\* The value read as the type: variant and two's-complement bits at the variant's width
TypedRaw(bt, raw) ==
    CASE bt \in {0, 2} -> FV("UInt8", raw)
      [] bt = 1 -> FV("SInt16", W(0, IF raw.lo >= 128 THEN raw.lo - 256 + 65536 ELSE raw.lo))
      [] bt = 3 -> FV("SInt16", raw)
      [] bt = 4 -> FV("UInt16", raw)
      [] bt = 5 -> FV("SInt32", raw)
      [] OTHER -> FV("UInt32", raw)

\* The field read was of base type 0..6, at least as large as the type and inside the buffer
WideEnough ==
    /\ fld_pc # "init"
    /\ fld.base_type % 16 \in 0..6
    /\ fld.size >= TypeWidth(fld.base_type % 16)
    /\ ~fld_value.err

\* C9: for base types 0..6 and a field at least as wide as the type that lies in
\* the buffer, read_field_value yields Invalid exactly when the raw little-endian
\* value is the type's sentinel and the typed raw value otherwise, failing only
\* when the field runs past the buffer; a sentinel u16 power gives a record
\* without power.
C9_InvalidIffSentinel ==
    /\ (fld_pc # "init" /\ fld_value.err) => position + fld.size > Len(data)
    /\ WideEnough =>
          LET bt == fld.base_type % 16
              raw == RawLE(data, position - fld.size, TypeWidth(bt))
          IN  /\ position <= Len(data)
              /\ (fld_value.value.t = "Invalid") <=> (raw = TypeSentinel(bt))
              /\ raw # TypeSentinel(bt) => fld_value.value = TypedRaw(bt, raw)
              /\ (fld_pc = "record" /\ fld.field_number = FIELD_POWER /\ bt = 4) =>
                     /\ fld_record.some
                     /\ fld_record.v.power.some <=> (raw # W(0, 65535))
                     /\ fld_record.v.power.some => fld_record.v.power.v = raw.lo

\* A u16 power field holding 0xFFFF has been read and made into a record
C9_Witness ==
    /\ fld_pc = "record"
    /\ fld.field_number = FIELD_POWER
    /\ fld.base_type = 132 /\ fld.size = 2
    /\ RawLE(data, position - 2, 2) = W(0, 65535)
    /\ fld_value.value.t = "Invalid"
    /\ fld_record.some /\ ~fld_record.v.power.some

(***************************************************************************)
(* GeoTransform round trips.  Terms and geographic coordinates are         *)
(* integers in millionths, so a determinant is in units of 1e-12 and the   *)
(* 1e-10 of geo_to_pixel is 100.                                           *)
(***************************************************************************)

\* Largest absolute pixel index or geographic coordinate of a round trip
MaxGeoCoord == 2

\* 1e-10 in units of 1e-12 (dem_processor.rs:48)
DetEpsMicro == 100

\* Unrotated and rotated transforms with determinants on both sides of 1e-10
\* (-25, -88, -100, -400, ...) and one singular transform (4, -3, 3, -4)
GeoTransforms ==
    { [origin_x |-> o[1], origin_y |-> o[2], pixel_width |-> pw, pixel_height |-> ph,
       rotation_x |-> r[1], rotation_y |-> r[2], det_eps |-> DetEpsMicro] :
          o \in {<<0, 0>>, <<7, -3>>}, pw \in {5, 10, 20}, ph \in {-5, -10, -20},
          r \in {<<0, 0>>, <<3, -4>>, <<3, 0>>} }
    \cup { [origin_x |-> 7, origin_y |-> -3, pixel_width |-> 4, pixel_height |-> -3,
            rotation_x |-> 3, rotation_y |-> -4, det_eps |-> DetEpsMicro] }

GeoPairs == {<<a, b>> : a \in -MaxGeoCoord..MaxGeoCoord, b \in -MaxGeoCoord..MaxGeoCoord}

Det(t) == t.pixel_width * t.pixel_height - t.rotation_x * t.rotation_y

InitGeo ==
    /\ GeoOthersIdle
    /\ geo_t \in GeoTransforms
    /\ geo_in \in GeoPairs
    /\ geo_out = <<>>
    /\ geo_pc = "call"

\* geo_to_pixel(pixel_to_geo(col, row)); pixel_to_geo of integers is integral
PixelRoundTrip ==
    /\ geo_pc = "call"
    /\ LET xy == pixel_to_geo(geo_t, Rat(geo_in[1], 1), Rat(geo_in[2], 1))
       IN  geo_out' = geo_to_pixel(geo_t, xy[1].n, xy[2].n)
    /\ geo_pc' = "pixel"
    /\ UNCHANGED <<geo_t, geo_in, GeoOthers>>

\* pixel_to_geo(geo_to_pixel(x, y))
GeoRoundTrip ==
    /\ geo_pc = "call"
    /\ LET cr == geo_to_pixel(geo_t, geo_in[1], geo_in[2])
       IN  geo_out' = pixel_to_geo(geo_t, cr[1], cr[2])
    /\ geo_pc' = "geo"
    /\ UNCHANGED <<geo_t, geo_in, GeoOthers>>

NextGeo ==
    \/ PixelRoundTrip
    \/ GeoRoundTrip

SpecGeo == InitGeo /\ [][NextGeo]_vars

\* The round trip made gave back the pair it was given
RoundTripIsIdentity == PairEq(geo_out, <<Rat(geo_in[1], 1), Rat(geo_in[2], 1)>>)

\* C11: for every geotransform whose determinant is not zero, rotated or not,
\* geo_to_pixel(pixel_to_geo(col, row)) = (col, row) and
\* pixel_to_geo(geo_to_pixel(x, y)) = (x, y).
C11_RoundTrip ==
    (geo_pc \in {"pixel", "geo"} /\ Det(geo_t) # 0) => RoundTripIsIdentity

\* C11 (amended): the two round trips are the identity for every geotransform
\* whose determinant is at least 1e-10 in absolute value; below that
\* geo_to_pixel returns (0, 0), whatever it is given.
C11_RoundTripAboveEps ==
    /\ (geo_pc \in {"pixel", "geo"} /\ Abs(Det(geo_t)) >= DetEpsMicro) => RoundTripIsIdentity
    /\ (geo_pc = "pixel" /\ Abs(Det(geo_t)) < DetEpsMicro) => geo_out = <<Rat(0, 1), Rat(0, 1)>>

\* A round trip from geographic coordinates through a rotated transform
C11_Witness ==
    /\ geo_pc = "geo"
    /\ geo_t.rotation_x # 0 /\ geo_t.rotation_y # 0
    /\ Abs(Det(geo_t)) >= DetEpsMicro
    /\ geo_in = <<2, -1>>
    /\ geo_out[1].d > 1
    /\ RoundTripIsIdentity

(***************************************************************************)
(* DEMProcessor::new_with_world_file.  The TIFF is what the tiff crate's   *)
(* Decoder reports of it; the geotransform and the projections come from   *)
(* parse_world_file / parse_geotransform and setup_projection, whose       *)
(* results are inputs here.                                                *)
(***************************************************************************)

\* Largest raster width and height of a TIFF
MaxDim == 3

\* GDAL_NODATA tag values (1/1000 m): absent, the default, and two others
NodataTags == {None, Some(DefaultNodata), Some(-32768000), Some(0)}
\* Every sample of the raster holds one value
TiffFills == {F(0), F(100000), F(-32768000)}

Tiffs ==
    [valid : {TRUE}, width : 1..MaxDim, height : 1..MaxDim, gdal_nodata : NodataTags,
     fill : TiffFills]
    \cup [valid : {FALSE}, width : {0}, height : {0}, gdal_nodata : {None}, fill : {F(0)}]

\* ---- DEMProcessor::parse_nodata (dem_processor.rs:639-643): the decoder is not read
parse_nodata(t) == Some(DefaultNodata)

\* let nodata_value = Self::parse_nodata(&mut decoder).unwrap_or(-9999.0)
\* (dem_processor.rs:186)
nodata_of(t) == UnwrapOr(parse_nodata(t), DefaultNodata)

InitNew ==
    /\ NewOthersIdle
    /\ tiff \in Tiffs
    /\ new_dem = [width |-> 0]
    /\ new_pc = "call"

\* Decoder::new fails (dem_processor.rs:79-99)
NewDecodeError ==
    /\ new_pc = "call"
    /\ ~tiff.valid
    /\ new_pc' = "error"
    /\ UNCHANGED <<tiff, new_dem, NewOthers>>

\* Ok(DEMProcessor { .. }) (dem_processor.rs:101-232)
NewBuilt ==
    /\ new_pc = "call"
    /\ tiff.valid
    /\ \E has_proj \in BOOLEAN :
           new_dem' = [width |-> tiff.width, height |-> tiff.height, transform |-> NorthUp3,
                       nodata_value |-> nodata_of(tiff),
                       data |-> [i \in 1..(tiff.width * tiff.height) |-> tiff.fill],
                       has_proj |-> has_proj]
    /\ new_pc' = "built"
    /\ UNCHANGED <<tiff, NewOthers>>

NextNew ==
    \/ NewDecodeError
    \/ NewBuilt

SpecNew == InitNew /\ [][NextNew]_vars

\* C12: the nodata value of a DEM built from a TIFF is -9999 when the TIFF has
\* no GDAL_NODATA tag and the tag's value when it has one.
C12_NodataFromTag ==
    new_pc = "built" =>
        new_dem.nodata_value = (IF tiff.gdal_nodata.some THEN tiff.gdal_nodata.v
                                ELSE DefaultNodata)

(***************************************************************************)
(*                     VirtualElevationCalculator                          *)
(*                                                                         *)
(* An f64 sample is NaN or a finite integer (speeds in m/s, times in s,    *)
(* elevations in m).  The air-speed calibration is in tenths, and so is    *)
(* every apparent velocity and virtual distance.  A virtual slope is kept  *)
(* by its class: -1 downhill, 0 flat, 1 uphill; the elevation step         *)
(* v*dt*sin(atan(slope)) of a sample is then v times the class.            *)
(***************************************************************************)

\* Most samples in the arrays of one VEData
\* Samples per array of VEData
MaxSamples == 3

\* air_speed_calibration 1.0, in tenths (virtual_elevation.rs:156)
CalibOne == 10
\* The time-step sanity bound of calculate_virtual_distances (virtual_elevation.rs:344)
MaxTimeStep == 10
\* Fewest samples, and smallest end - start, calculate_metrics computes metrics for
\* (virtual_elevation.rs:471, 479)
MinMetricLen == 3
MinTrimSpan == 2

\* ---- f64 arithmetic and tests with NaN
FAdd(a, b) == IF a.nan \/ b.nan THEN NaN ELSE F(a.v + b.v)
FSub(a, b) == IF a.nan \/ b.nan THEN NaN ELSE F(a.v - b.v)
FMul(a, b) == IF a.nan \/ b.nan THEN NaN ELSE F(a.v * b.v)
\* !x.is_nan() && x != 0.0
FNonZero(a) == ~a.nan /\ a.v # 0
\* !x.is_nan() && x > 0.0
FPositive(a) == ~a.nan /\ a.v > 0
Fill(x, n) == [i \in 1..n |-> x]

RECURSIVE FSum(_, _)
\* The sum of the first n elements of s, left to right
FSum(s, n) == IF n = 0 THEN F(0) ELSE FAdd(FSum(s, n - 1), s[n])

\* usize::saturating_sub(1)
SaturatingSub1(n) == IF n = 0 THEN 0 ELSE n - 1

\* ---- VirtualElevationCalculator::calculate_acceleration (virtual_elevation.rs:167-185)
\* As a rational, or 0 where the code leaves or resets it
calculate_acceleration(d) ==
    [i \in 1..Len(d.velocity) |->
        IF i > 1 /\ FPositive(d.velocity[i]) /\ ~d.velocity[i - 1].nan
        THEN Rat(d.velocity[i].v * d.velocity[i].v - d.velocity[i - 1].v * d.velocity[i - 1].v,
                 2 * d.velocity[i].v)
        ELSE Rat(0, 1)]

\* calculate_rider_directions indexes lon with the indices of lat
\* (virtual_elevation.rs:202-219)
RiderDirectionsPanic(d) ==
    Len(d.position_lat) >= 2 /\ Len(d.position_long) < Len(d.position_lat)

\* The cosine of the angle between wind and heading, by class
CosClasses == {-1, 0, 1}

\* ---- VirtualElevationCalculator::calculate_effective_wind (virtual_elevation.rs:247-295)
\* The set of arrays it may return: one, unless headings decide
calculate_effective_wind(d, p) ==
    LET wind_speed == UnwrapOr(p.wind_speed, 0)
    IN  IF wind_speed = 0 THEN {Fill(F(0), Len(d.velocity))}
        ELSE IF ~p.wind_direction.some THEN {Fill(F(wind_speed), Len(d.velocity))}
        ELSE IF Len(d.position_lat) = 0 \/ Len(d.position_long) = 0
        THEN {Fill(F(wind_speed), Len(d.velocity))}
        ELSE {[i \in 1..Len(d.position_lat) |-> F(wind_speed * c[i])] :
                 c \in [1..Len(d.position_lat) -> CosClasses]}

\* !air_speed.is_empty() && air_speed.iter().any(|&x| !x.is_nan() && x != 0.0)
has_air_speed(d) == \E i \in 1..Len(d.air_speed) : FNonZero(d.air_speed[i])
has_wind_speed(d) == \E i \in 1..Len(d.wind_speed) : FNonZero(d.wind_speed[i])

\* get_apparent_velocity with the wind_speed stream tried first
get_apparent_velocity_WindFirst(d, p, effective_wind) ==
    IF has_wind_speed(d)
    THEN [i \in 1..Min(Len(d.velocity), Len(d.wind_speed)) |->
             FMul(FAdd(d.velocity[i], IF d.wind_speed[i].nan THEN F(0) ELSE d.wind_speed[i]),
                  F(CalibOne))]
    ELSE IF has_air_speed(d)
    THEN [i \in 1..Len(d.air_speed) |-> FMul(d.air_speed[i], F(p.air_speed_calibration))]
    ELSE [i \in 1..Min(Len(d.velocity), Len(effective_wind)) |->
             FMul(FAdd(d.velocity[i], effective_wind[i]), F(CalibOne))]

\* ---- VirtualElevationCalculator::get_apparent_velocity (virtual_elevation.rs:298-318)
\* In tenths of m/s
get_apparent_velocity(d, p, effective_wind) ==
    IF has_air_speed(d)
    THEN [i \in 1..Len(d.air_speed) |-> FMul(d.air_speed[i], F(p.air_speed_calibration))]
    ELSE IF has_wind_speed(d)
    THEN [i \in 1..Min(Len(d.velocity), Len(d.wind_speed)) |->
             FMul(FAdd(d.velocity[i], IF d.wind_speed[i].nan THEN F(0) ELSE d.wind_speed[i]),
                  F(CalibOne))]
    ELSE [i \in 1..Min(Len(d.velocity), Len(effective_wind)) |->
             FMul(FAdd(d.velocity[i], effective_wind[i]), F(CalibOne))]

\* 0-based indexing of a Vec
At(s, i) == s[i + 1]

\* The time step ending at 0-based sample i passes the sanity check
\* (virtual_elevation.rs:343-344)
GoodStep(d, i) ==
    LET dt == FSub(At(d.timestamps, i), At(d.timestamps, i - 1))
    IN  ~dt.nan /\ dt.v > 0 /\ dt.v < MaxTimeStep

\* start_idx and end_idx of calculate_virtual_distances (virtual_elevation.rs:334-335)
VdStart(d, trim_start) == Min(trim_start, SaturatingSub1(Len(d.timestamps)))
\* VdEnd without the clamp to the last sample
VdEnd_Unclamped(d, trim_end) == trim_end

VdEnd(d, trim_end) == Min(trim_end, SaturatingSub1(Len(d.timestamps)))

\* The loop of calculate_virtual_distances runs (virtual_elevation.rs:326-342)
VdLoops(d, trim_start, trim_end) ==
    has_air_speed(d) /\ VdStart(d, trim_start) < VdEnd(d, trim_end)

\* An index of the loop is outside timestamps, air_speed or velocity
\* (virtual_elevation.rs:343, 346, 352)
VdPanic(d, trim_start, trim_end) ==
    /\ VdLoops(d, trim_start, trim_end)
    /\ \E i \in (VdStart(d, trim_start) + 1)..VdEnd(d, trim_end) :
           \/ i >= Len(d.timestamps)
           \/ GoodStep(d, i) /\ (i >= Len(d.air_speed) \/ i >= Len(d.velocity))

RECURSIVE VdAir(_, _, _, _)
\* vd_air over the 0-based samples lo..hi, in tenths of a metre
VdAir(d, p, lo, hi) ==
    IF hi < lo THEN 0
    ELSE LET air_speed == FMul(At(d.air_speed, hi), F(p.air_speed_calibration))
             dt == FSub(At(d.timestamps, hi), At(d.timestamps, hi - 1))
         IN  VdAir(d, p, lo, hi - 1)
               + (IF GoodStep(d, hi) /\ FPositive(air_speed) THEN air_speed.v * dt.v ELSE 0)

RECURSIVE VdGround_NoStepCheck(_, _, _)
\* VdGround without the sanity check of the time step
VdGround_NoStepCheck(d, lo, hi) ==
    IF hi < lo THEN 0
    ELSE LET ground_speed == At(d.velocity, hi)
             dt == FSub(At(d.timestamps, hi), At(d.timestamps, hi - 1))
         IN  VdGround_NoStepCheck(d, lo, hi - 1)
               + (IF ~dt.nan /\ FPositive(ground_speed)
                  THEN CalibOne * ground_speed.v * dt.v ELSE 0)

RECURSIVE VdGround(_, _, _)
\* vd_ground over the 0-based samples lo..hi, in tenths of a metre
VdGround(d, lo, hi) ==
    IF hi < lo THEN 0
    ELSE LET ground_speed == At(d.velocity, hi)
             dt == FSub(At(d.timestamps, hi), At(d.timestamps, hi - 1))
         IN  VdGround(d, lo, hi - 1)
               + (IF GoodStep(d, hi) /\ FPositive(ground_speed)
                  THEN CalibOne * ground_speed.v * dt.v ELSE 0)

\* ---- VirtualElevationCalculator::calculate_virtual_distances
\* (virtual_elevation.rs:321-367), when no index is out of range
calculate_virtual_distances(d, p, trim_start, trim_end) ==
    IF ~VdLoops(d, trim_start, trim_end)
    THEN [air |-> 0, ground |-> 0, percent |-> Rat(0, 1), looped |-> FALSE,
          start_idx |-> 0, end_idx |-> 0]
    ELSE LET start_idx == VdStart(d, trim_start)
             end_idx == VdEnd(d, trim_end)
             vd_air == VdAir(d, p, start_idx + 1, end_idx)
             vd_ground == VdGround(d, start_idx + 1, end_idx)
         IN  [air |-> vd_air, ground |-> vd_ground,
              percent |-> IF vd_ground > 0 THEN Rat((vd_air - vd_ground) * 100, vd_ground)
                          ELSE Rat(0, 1),
              looped |-> TRUE, start_idx |-> start_idx, end_idx |-> end_idx]

\* The loop of calculate_virtual_slope indexes power, acceleration and
\* apparent_velocity with the indices of velocity (virtual_elevation.rs:377-381)
SlopePanic(d, apparent_velocity) ==
    Len(d.power) < Len(d.velocity) \/ Len(apparent_velocity) < Len(d.velocity)

RECURSIVE CumSum(_, _)
\* The first n running sums of s (virtual_elevation.rs:411-416)
CumSum(s, n) == IF n = 0 THEN <<>> ELSE Append(CumSum(s, n - 1), FSum(s, n))

\* delta_elevation and its cumulative sum (virtual_elevation.rs:401-416)
VirtualElevation(d, slope) ==
    CumSum([i \in 1..Len(slope) |-> FMul(d.velocity[i], F(slope[i]))], Len(slope))

\* NoActualElevation for an empty altitude only
NoActualElevation_EmptyOnly(d) == Len(d.altitude) = 0

\* altitude is empty, all NaN or all zero (virtual_elevation.rs:446-449)
NoActualElevation(d) ==
    \/ Len(d.altitude) = 0
    \/ \A i \in 1..Len(d.altitude) : d.altitude[i].nan
    \/ \A i \in 1..Len(d.altitude) : ~d.altitude[i].nan /\ d.altitude[i].v = 0

\* What calculate_metrics returns: r2 as a rational, rmse by its square mse/len
\* (NaN or a rational), the two differences, and the indices it used, if any
Metrics(r2, rmse_sq, ve_diff, actual_diff, used, start, end) ==
    [r2 |-> r2, rmse_sq |-> rmse_sq, ve_elevation_diff |-> ve_diff,
     actual_elevation_diff |-> actual_diff, used |-> used, start |-> start, end |-> end]

ZeroSq == [nan |-> FALSE, n |-> 0, d |-> 1]

\* calculate_metrics without the velodrome replacement of the actual elevation
calculate_metrics_NoVelodrome(d, p, h, trim_start, trim_end) ==
    IF NoActualElevation(d)
    THEN LET safe_trim_end == Min(trim_end, SaturatingSub1(Len(h)))
             safe_trim_start == Min(trim_start, safe_trim_end)
         IN  IF Len(h) > safe_trim_start /\ Len(h) > safe_trim_end
             THEN Metrics(Rat(0, 1), ZeroSq, FSub(At(h, safe_trim_end), At(h, safe_trim_start)),
                          F(0), TRUE, safe_trim_start, safe_trim_end)
             ELSE Metrics(Rat(0, 1), ZeroSq, F(0), F(0), FALSE, 0, 0)
    ELSE LET actual_elevation == d.altitude
             min_len == Min(Len(h), Len(actual_elevation))
             safe_trim_end == Min(trim_end, SaturatingSub1(min_len))
             safe_trim_start == Min(trim_start, safe_trim_end)
         IN  IF min_len < MinMetricLen
             THEN Metrics(Rat(0, 1), ZeroSq, F(0), F(0), FALSE, 0, 0)
             ELSE IF safe_trim_end <= safe_trim_start
                     \/ safe_trim_end - safe_trim_start < MinTrimSpan
             THEN Metrics(Rat(0, 1), ZeroSq, F(0), F(0), FALSE, 0, 0)
             ELSE LET offset == FSub(At(actual_elevation, safe_trim_start),
                                     At(h, safe_trim_start))
                      trim_len == safe_trim_end - safe_trim_start + 1
                      ve == [k \in 1..trim_len |-> FAdd(At(h, safe_trim_start + k - 1), offset)]
                      actual == [k \in 1..trim_len |->
                                    At(actual_elevation, safe_trim_start + k - 1)]
                      \* deviations from the mean, times trim_len
                      ve_dev == [k \in 1..trim_len |->
                                    FSub(FMul(F(trim_len), ve[k]), FSum(ve, trim_len))]
                      actual_dev == [k \in 1..trim_len |->
                                    FSub(FMul(F(trim_len), actual[k]), FSum(actual, trim_len))]
                      numerator == FSum([k \in 1..trim_len |-> FMul(ve_dev[k], actual_dev[k])],
                                        trim_len)
                      ve_sq_sum == FSum([k \in 1..trim_len |-> FMul(ve_dev[k], ve_dev[k])],
                                        trim_len)
                      actual_sq_sum ==
                          FSum([k \in 1..trim_len |-> FMul(actual_dev[k], actual_dev[k])],
                               trim_len)
                      mse == FSum([k \in 1..trim_len |->
                                      FMul(FSub(ve[k], actual[k]), FSub(ve[k], actual[k]))],
                                  trim_len)
                  IN  Metrics(IF FPositive(ve_sq_sum) /\ FPositive(actual_sq_sum)
                              THEN Rat(numerator.v * numerator.v, ve_sq_sum.v * actual_sq_sum.v)
                              ELSE Rat(0, 1),
                              IF mse.nan THEN [nan |-> TRUE, n |-> 0, d |-> 1]
                              ELSE [nan |-> FALSE, n |-> mse.v, d |-> trim_len],
                              FSub(ve[trim_len], ve[1]),
                              FSub(actual[trim_len], actual[1]),
                              TRUE, safe_trim_start, safe_trim_end)

\* ---- VirtualElevationCalculator::calculate_metrics (virtual_elevation.rs:443-530)
\* h is the virtual elevation
calculate_metrics(d, p, h, trim_start, trim_end) ==
    IF NoActualElevation(d)
    THEN LET safe_trim_end == Min(trim_end, SaturatingSub1(Len(h)))
             safe_trim_start == Min(trim_start, safe_trim_end)
         IN  IF Len(h) > safe_trim_start /\ Len(h) > safe_trim_end
             THEN Metrics(Rat(0, 1), ZeroSq, FSub(At(h, safe_trim_end), At(h, safe_trim_start)),
                          F(0), TRUE, safe_trim_start, safe_trim_end)
             ELSE Metrics(Rat(0, 1), ZeroSq, F(0), F(0), FALSE, 0, 0)
    ELSE LET actual_elevation == IF p.velodrome THEN Fill(F(0), Len(d.altitude))
                                 ELSE d.altitude
             min_len == Min(Len(h), Len(actual_elevation))
             safe_trim_end == Min(trim_end, SaturatingSub1(min_len))
             safe_trim_start == Min(trim_start, safe_trim_end)
         IN  IF min_len < MinMetricLen
             THEN Metrics(Rat(0, 1), ZeroSq, F(0), F(0), FALSE, 0, 0)
             ELSE IF safe_trim_end <= safe_trim_start
                     \/ safe_trim_end - safe_trim_start < MinTrimSpan
             THEN Metrics(Rat(0, 1), ZeroSq, F(0), F(0), FALSE, 0, 0)
             ELSE LET offset == FSub(At(actual_elevation, safe_trim_start),
                                     At(h, safe_trim_start))
                      trim_len == safe_trim_end - safe_trim_start + 1
                      ve == [k \in 1..trim_len |-> FAdd(At(h, safe_trim_start + k - 1), offset)]
                      actual == [k \in 1..trim_len |->
                                    At(actual_elevation, safe_trim_start + k - 1)]
                      \* deviations from the mean, times trim_len
                      ve_dev == [k \in 1..trim_len |->
                                    FSub(FMul(F(trim_len), ve[k]), FSum(ve, trim_len))]
                      actual_dev == [k \in 1..trim_len |->
                                    FSub(FMul(F(trim_len), actual[k]), FSum(actual, trim_len))]
                      numerator == FSum([k \in 1..trim_len |-> FMul(ve_dev[k], actual_dev[k])],
                                        trim_len)
                      ve_sq_sum == FSum([k \in 1..trim_len |-> FMul(ve_dev[k], ve_dev[k])],
                                        trim_len)
                      actual_sq_sum ==
                          FSum([k \in 1..trim_len |-> FMul(actual_dev[k], actual_dev[k])],
                               trim_len)
                      mse == FSum([k \in 1..trim_len |->
                                      FMul(FSub(ve[k], actual[k]), FSub(ve[k], actual[k]))],
                                  trim_len)
                  IN  Metrics(IF FPositive(ve_sq_sum) /\ FPositive(actual_sq_sum)
                              THEN Rat(numerator.v * numerator.v, ve_sq_sum.v * actual_sq_sum.v)
                              ELSE Rat(0, 1),
                              IF mse.nan THEN [nan |-> TRUE, n |-> 0, d |-> 1]
                              ELSE [nan |-> FALSE, n |-> mse.v, d |-> trim_len],
                              FSub(ve[trim_len], ve[1]),
                              FSub(actual[trim_len], actual[1]),
                              TRUE, safe_trim_start, safe_trim_end)

\* ---- inputs: arrays of n samples, by pattern
VelocityPatterns(n) ==
    { Fill(F(2), n),
      [i \in 1..n |-> F((i % 2) * 2)],
      [i \in 1..n |-> IF i = 2 THEN NaN ELSE F(2)],
      [i \in 1..n |-> F(i)] }
\* 1 s steps; a 12 s gap after the first sample; a repeated last timestamp
TimePatterns(n) ==
    { [i \in 1..n |-> F(i - 1)],
      [i \in 1..n |-> F(IF i >= 2 THEN i + 10 ELSE 0)],
      [i \in 1..n |-> F(IF i = n /\ n >= 2 THEN n - 2 ELSE i - 1)] }
AltitudePatterns(n) ==
    { <<>>, Fill(NaN, n), Fill(F(0), n), Fill(F(5), n),
      [i \in 1..n |-> F(10 + i)],
      [i \in 1..n |-> IF i = 2 THEN NaN ELSE F(10 + i)] }
SlopePatterns(n) ==
    { Fill(1, n), Fill(0, n), [i \in 1..n |-> IF i % 2 = 1 THEN 1 ELSE -1],
      [i \in 1..n |-> 2 - ((i + 1) % 3) - 1] }
AirSpeedPatterns(n, velocity) ==
    { <<>>, velocity, Fill(F(0), n), Fill(NaN, n),
      [i \in 1..n |-> FAdd(velocity[i], F(1))],
      [i \in 1..n |-> IF i = n THEN F(3) ELSE NaN] }
WindSpeedPatterns(n) ==
    { <<>>, Fill(F(0), n), Fill(NaN, n), [i \in 1..n |-> IF i = 2 THEN NaN ELSE F(1)] }
WindParams ==
    { [wind_speed |-> None, wind_direction |-> None],
      [wind_speed |-> Some(0), wind_direction |-> Some(90)],
      [wind_speed |-> Some(5), wind_direction |-> None],
      [wind_speed |-> Some(5), wind_direction |-> Some(90)] }
Calibrations == {CalibOne, CalibOne + 1}
\* trim_start / trim_end: inside the arrays, at their length and past it
Trims(n) == 0..(n + 1)

DefaultData(n) ==
    [timestamps |-> [i \in 1..n |-> F(i - 1)], power |-> Fill(F(100), n),
     velocity |-> Fill(F(2), n), position_lat |-> Fill(F(45), n),
     position_long |-> Fill(F(7), n), altitude |-> [i \in 1..n |-> F(10 + i)],
     air_speed |-> <<>>, wind_speed |-> <<>>]
DefaultParams ==
    [velodrome |-> FALSE, wind_speed |-> None, wind_direction |-> None,
     air_speed_calibration |-> CalibOne]
VeInput(d, p, trim_start, trim_end, slope) ==
    [data |-> d, params |-> p,
     call |-> [trim_start |-> trim_start, trim_end |-> trim_end, slope |-> slope]]

\* Virtual distances: velocity, timestamps, air_speed, calibration and trims vary
DistanceInputs(n) ==
    { VeInput([DefaultData(n) EXCEPT !.velocity = v, !.timestamps = t, !.air_speed = a],
              [DefaultParams EXCEPT !.air_speed_calibration = c], ts, te, Fill(1, n)) :
        v \in VelocityPatterns(n), t \in TimePatterns(n),
        a \in UNION {AirSpeedPatterns(n, w) : w \in VelocityPatterns(n)},
        c \in Calibrations, ts \in Trims(n), te \in Trims(n) }
\* Metrics: altitude, slope, velocity, velodrome and trims vary
MetricInputs(n) ==
    { VeInput([DefaultData(n) EXCEPT !.velocity = v, !.altitude = alt],
              [DefaultParams EXCEPT !.velodrome = vd], ts, te, sl) :
        v \in VelocityPatterns(n), alt \in AltitudePatterns(n), sl \in SlopePatterns(n),
        vd \in BOOLEAN, ts \in Trims(n), te \in Trims(n) }
\* Apparent velocity: air_speed, wind_speed, wind parameters, GPS and calibration vary
ApparentInputs(n) ==
    UNION { { VeInput([DefaultData(n) EXCEPT !.velocity = v, !.air_speed = a,
                                              !.wind_speed = w,
                                              !.position_lat = g[1], !.position_long = g[2]],
                      [DefaultParams EXCEPT !.wind_speed = wp.wind_speed,
                                            !.wind_direction = wp.wind_direction,
                                            !.air_speed_calibration = c],
                      0, n, Fill(1, n)) :
                a \in AirSpeedPatterns(n, v), w \in WindSpeedPatterns(n),
                wp \in WindParams, c \in Calibrations,
                g \in {<<Fill(F(45), n), Fill(F(7), n)>>, <<<<>>, <<>>>>,
                       <<Fill(F(45), n), <<>>>>} } :
            v \in VelocityPatterns(n) }
\* Array lengths: each optional array has n samples or none; power, air_speed
\* or position_long may also be one sample short
LengthInputs(n) ==
    { VeInput([DefaultData(n) EXCEPT !.power = Fill(F(100), pw),
                                      !.position_lat = Fill(F(45), la),
                                      !.position_long = Fill(F(7), lo),
                                      !.altitude = Fill(F(5), al),
                                      !.air_speed = Fill(F(3), ai),
                                      !.wind_speed = Fill(F(1), wi)],
              [DefaultParams EXCEPT !.wind_speed = Some(5), !.wind_direction = Some(90)],
              ts, te, Fill(1, n)) :
        pw \in {n, SaturatingSub1(n)}, la \in {0, n}, lo \in {0, n, SaturatingSub1(n)},
        al \in {0, n}, ai \in {0, n, SaturatingSub1(n)}, wi \in {0, n},
        ts \in Trims(n), te \in Trims(n) }

VeFamilies == {"distance", "metric", "apparent", "length"}
VeInputs(family, n) ==
    CASE family = "distance" -> DistanceInputs(n)
      [] family = "metric" -> MetricInputs(n)
      [] family = "apparent" -> ApparentInputs(n)
      [] family = "length" -> LengthInputs(n)

\* ---- VirtualElevationCalculator::new, set_air_speed_calibration and the
\* arguments of one calculate_virtual_elevation call
InitVe ==
    /\ VeOthersIdle
    /\ \E n \in 0..MaxSamples : \E family \in VeFamilies : \E x \in VeInputs(family, n) :
           /\ ve_data = x.data
           /\ ve_params = x.params
           /\ ve_call = x.call
    /\ ve_result = [r2 |-> 0]
    /\ ve_pc = "call"

\* calculate_effective_wind calls calculate_rider_directions (virtual_elevation.rs:262-266)
UsesRiderDirections(d, p) ==
    /\ UnwrapOr(p.wind_speed, 0) # 0
    /\ p.wind_direction.some
    /\ Len(d.position_lat) > 0 /\ Len(d.position_long) > 0

\* Some index of calculate_virtual_elevation is out of range: the call panics
VePanics(d, p, c) ==
    \/ UsesRiderDirections(d, p) /\ RiderDirectionsPanic(d)
    \/ \E ew \in calculate_effective_wind(d, p) : SlopePanic(d, get_apparent_velocity(d, p, ew))
    \/ VdPanic(d, c.trim_start, c.trim_end)

\* ---- VirtualElevationCalculator::calculate_virtual_elevation
\* (virtual_elevation.rs:397-440)
CalculateVirtualElevation ==
    /\ ve_pc = "call"
    /\ ~VePanics(ve_data, ve_params, ve_call)
    /\ \E ew \in calculate_effective_wind(ve_data, ve_params) :
       \E h \in {VirtualElevation(ve_data, ve_call.slope)} :
       \E m \in {calculate_metrics(ve_data, ve_params, h, ve_call.trim_start,
                                   ve_call.trim_end)} :
       \E vd \in {calculate_virtual_distances(ve_data, ve_params, ve_call.trim_start,
                                              ve_call.trim_end)} :
           ve_result' =
               [virtual_elevation |-> h,
                virtual_slope |-> ve_call.slope,
                acceleration |-> calculate_acceleration(ve_data),
                effective_wind |-> ew,
                apparent_velocity |-> get_apparent_velocity(ve_data, ve_params, ew),
                r2 |-> m.r2, rmse_sq |-> m.rmse_sq,
                ve_elevation_diff |-> m.ve_elevation_diff,
                actual_elevation_diff |-> m.actual_elevation_diff,
                virtual_distance_air |-> vd.air,
                virtual_distance_ground |-> vd.ground,
                vd_difference_percent |-> vd.percent,
                metrics |-> m, distances |-> vd]
    /\ ve_pc' = "done"
    /\ UNCHANGED <<ve_data, ve_params, ve_call, VeOthers>>

\* An index out of range ends the call
CalculateVirtualElevationPanic ==
    /\ ve_pc = "call"
    /\ VePanics(ve_data, ve_params, ve_call)
    /\ ve_pc' = "panic"
    /\ UNCHANGED <<ve_data, ve_params, ve_call, ve_result, VeOthers>>

NextVe ==
    \/ CalculateVirtualElevation
    \/ CalculateVirtualElevationPanic

SpecVe == InitVe /\ [][NextVe]_vars

C14_VelodromeActualDiffZero ==
    (ve_pc = "done" /\ ve_params.velodrome) => ve_result.actual_elevation_diff = F(0)

\* Velodrome metrics over a region whose recorded altitude differs between its ends
C14_Witness ==
    /\ ve_pc = "done"
    /\ ve_params.velodrome
    /\ ~NoActualElevation(ve_data)
    /\ ve_result.metrics.used
    /\ At(ve_data.altitude, ve_result.metrics.start)
         # At(ve_data.altitude, ve_result.metrics.end)

\* timestamps, power and velocity have one length N and every optional array
\* has length N or 0
ConsistentLengths(d) ==
    LET N == Len(d.timestamps)
    IN  /\ Len(d.power) = N /\ Len(d.velocity) = N
        /\ \A len \in {Len(d.position_lat), Len(d.position_long), Len(d.altitude),
                       Len(d.air_speed), Len(d.wind_speed)} : len \in {0, N}

\* C15: with consistent array lengths calculate_virtual_elevation completes
\* without an index out of range for every trim_start and trim_end; the
\* indices used for metrics and virtual distances lie in [0, N-1] with
\* start <= end, and the five result arrays have length N.
C15_NoIndexOutOfRange ==
    ConsistentLengths(ve_data) =>
        LET N == Len(ve_data.timestamps)
        IN  /\ ve_pc # "panic"
            /\ ve_pc = "done" =>
                 /\ \A len \in {Len(ve_result.virtual_elevation),
                                Len(ve_result.virtual_slope), Len(ve_result.acceleration),
                                Len(ve_result.effective_wind),
                                Len(ve_result.apparent_velocity)} : len = N
                 /\ ve_result.metrics.used =>
                      /\ 0 <= ve_result.metrics.start
                      /\ ve_result.metrics.start <= ve_result.metrics.end
                      /\ ve_result.metrics.end <= N - 1
                 /\ ve_result.distances.looped =>
                      /\ 0 <= ve_result.distances.start_idx
                      /\ ve_result.distances.start_idx <= ve_result.distances.end_idx
                      /\ ve_result.distances.end_idx <= N - 1

\* A call with trim_start > trim_end >= N that used indices for both
C15_Witness ==
    /\ ve_pc = "done"
    /\ ConsistentLengths(ve_data)
    /\ Len(ve_data.timestamps) >= 2
    /\ ve_call.trim_end >= Len(ve_data.timestamps)
    /\ ve_call.trim_start > ve_call.trim_end
    /\ ve_result.metrics.used
    /\ has_air_speed(ve_data)

\* C16: when altitude is empty, all NaN or all zero, calculate_metrics returns
\* r2 = 0, rmse = 0, actual_elevation_diff = 0 and ve_elevation_diff =
\* h[end] - h[start] with end = min(trim_end, N-1), start = min(trim_start, end),
\* whatever the velodrome flag and however short the region.
C16_NoAltitudeMetrics ==
    (/\ ve_pc = "done"
     /\ \/ ve_data.altitude = <<>>
        \/ \A i \in 1..Len(ve_data.altitude) : ve_data.altitude[i] = NaN
        \/ \A i \in 1..Len(ve_data.altitude) : ve_data.altitude[i] = F(0)) =>
        LET h == ve_result.virtual_elevation
            N == Len(h)
            end == Min(ve_call.trim_end, N - 1)
            start == Min(ve_call.trim_start, end)
        IN  /\ RatEq(ve_result.r2, Rat(0, 1))
            /\ ve_result.rmse_sq = ZeroSq
            /\ ve_result.actual_elevation_diff = F(0)
            /\ N >= 1 => ve_result.ve_elevation_diff = FSub(At(h, end), At(h, start))
            /\ N = 0 => ve_result.ve_elevation_diff = F(0)

\* An all-zero altitude, velodrome set, a region of two samples and a
\* non-zero virtual elevation difference
C16_Witness ==
    /\ ve_pc = "done"
    /\ Len(ve_data.altitude) > 0
    /\ \A i \in 1..Len(ve_data.altitude) : ve_data.altitude[i] = F(0)
    /\ ve_params.velodrome
    /\ ve_result.metrics.end - ve_result.metrics.start = 1
    /\ ~ve_result.ve_elevation_diff.nan /\ ve_result.ve_elevation_diff.v # 0

Fin(x) == [cls |-> "finite", v |-> x]
NotFinite(cls) == [cls |-> cls, v |-> 0]
is_finite(x) == x.cls = "finite"

AirOk(x) == [ok |-> TRUE, v |-> x, err |-> ""]
AirErr(msg) == [ok |-> FALSE, v |-> Fin(0), err |-> msg]

\* Gas constants, in hundredths (air_density.rs:4-5)
RD == 28705
RV == 46150
\* Magnus-Tetens constants: A in hundredths, B in tenths (air_density.rs:60-61)
MagnusA == 1727
MagnusB == 2373
\* Validation ranges (air_density.rs:47, 53, 114)
MinHumidity == 0
MaxHumidity == 100
MinTemp == -100
MaxTemp == 60
MaxPressure == 1100
\* dew_point > temp_c + 0.1, in hundredths of a degree (air_density.rs:76)
DewTolerance == 10
\* 273.15, in hundredths (air_density.rs:135)
Kelvin == 27315
\* rho < 0.5 || rho > 2.0, in 1e-4 kg/m3 (air_density.rs:155)
MinDensity == 5000
MaxDensity == 20000

\* 1000 * ln(h / 100) for the humidities of the inputs, rounded
LnThousandths == (1 :> -4605) @@ (10 :> -2303) @@ (50 :> -693) @@ (60 :> -511) @@ (100 :> 0)

\* f64::ln of humidity_percent / 100.0, in thousandths: ln(0) is -inf
ln(humidity_percent) ==
    IF humidity_percent = 0 THEN NotFinite("-inf") ELSE Fin(LnThousandths[humidity_percent])

\* 100 * 6.1078 * exp(17.27 * T / (T + 237.3)) for the dew points of the inputs, rounded
EsPa ==
    (-150 :> 0) @@ (-25 :> 80) @@ (-10 :> 286) @@ (0 :> 611) @@ (5 :> 872) @@ (10 :> 1228)
    @@ (20 :> 2338) @@ (23 :> 2809) @@ (25 :> 3168) @@ (60 :> 19932)

\* ---- AirDensityCalculator::saturation_vapor_pressure (air_density.rs:23-26), in Pa
saturation_vapor_pressure(temp_c) == EsPa[temp_c]

\* ---- AirDensityCalculator::calculate_dew_point (air_density.rs:41-83)
calculate_dew_point(temp_c, humidity_percent) ==
    IF ~is_finite(temp_c) \/ ~is_finite(humidity_percent)
    THEN AirErr("Invalid input: non-finite values")
    ELSE IF humidity_percent.v < MinHumidity \/ humidity_percent.v > MaxHumidity
    THEN AirErr("Invalid humidity")
    ELSE IF temp_c.v < MinTemp \/ temp_c.v > MaxTemp
    THEN AirErr("Invalid temperature")
    ELSE LET ln_rh == ln(humidity_percent.v)
             \* -inf + finite = -inf
             gamma == IF is_finite(ln_rh)
                      THEN Fin(ln_rh.v + (100 * MagnusA * temp_c.v) \div (MagnusB + 10 * temp_c.v))
                      ELSE ln_rh
             \* (B * -inf) / (A + inf) = NaN
             dew_point == IF is_finite(gamma)
                          THEN Fin((10 * MagnusB * gamma.v) \div (10 * MagnusA - gamma.v))
                          ELSE NotFinite("nan")
         IN  IF ~is_finite(dew_point)
             THEN AirErr("Dew point calculation resulted in invalid value")
             ELSE IF dew_point.v > 100 * temp_c.v + DewTolerance
             THEN AirErr("Calculated dew point exceeds temperature")
             ELSE AirOk(dew_point)

\* p / (R * temp_k), in 1e-4 kg/m3
GasDensity(pa, R, temp_k) == (((pa * 10000) \div R) * 10000) \div temp_k

\* calculate_air_density without the dew point test
calculate_air_density_NoDewPointTest(temp_c, pressure_hpa, dew_point_c) ==
    IF ~is_finite(temp_c) \/ ~is_finite(pressure_hpa) \/ ~is_finite(dew_point_c)
    THEN AirErr("Invalid input: non-finite values")
    ELSE IF pressure_hpa.v <= 0 \/ pressure_hpa.v > MaxPressure
    THEN AirErr("Invalid pressure")
    ELSE IF temp_c.v < MinTemp \/ temp_c.v > MaxTemp
    THEN AirErr("Invalid temperature")
    ELSE LET temp_k == 100 * temp_c.v + Kelvin
             pv_pa == saturation_vapor_pressure(Min(dew_point_c.v, MaxTemp))
             pd_pa == 100 * pressure_hpa.v - pv_pa
             rho == GasDensity(pd_pa, RD, temp_k) + GasDensity(pv_pa, RV, temp_k)
         IN  IF rho < MinDensity \/ rho > MaxDensity
             THEN AirErr("Calculated air density out of range")
             ELSE AirOk(Fin(rho))

\* ---- AirDensityCalculator::calculate_air_density (air_density.rs:103-162)
calculate_air_density(temp_c, pressure_hpa, dew_point_c) ==
    IF ~is_finite(temp_c) \/ ~is_finite(pressure_hpa) \/ ~is_finite(dew_point_c)
    THEN AirErr("Invalid input: non-finite values")
    ELSE IF pressure_hpa.v <= 0 \/ pressure_hpa.v > MaxPressure
    THEN AirErr("Invalid pressure")
    ELSE IF temp_c.v < MinTemp \/ temp_c.v > MaxTemp
    THEN AirErr("Invalid temperature")
    ELSE IF dew_point_c.v > temp_c.v
    THEN AirErr("Dew point cannot exceed temperature")
    ELSE LET temp_k == 100 * temp_c.v + Kelvin
             pv_pa == saturation_vapor_pressure(dew_point_c.v)
             pd_pa == 100 * pressure_hpa.v - pv_pa
             rho == GasDensity(pd_pa, RD, temp_k) + GasDensity(pv_pa, RV, temp_k)
         IN  IF rho < MinDensity \/ rho > MaxDensity
             THEN AirErr("Calculated air density out of range")
             ELSE AirOk(Fin(rho))

\* ---- inputs
Temps == {Fin(x) : x \in {-101, -100, -20, 0, 15, 25, 60, 61}}
            \cup {NotFinite("nan"), NotFinite("+inf")}
Humidities == {Fin(x) : x \in {-10, -1, 0, 1, 10, 50, 60, 100, 101, 150}}
            \cup {NotFinite("nan")}
Pressures == {Fin(x) : x \in {-10, 0, 1, 300, 700, 1013, 1100, 1101, 1500}}
            \cup {NotFinite("nan")}
DewPoints == {Fin(x) : x \in {-150, -25, -10, 0, 5, 10, 20, 23, 25, 60, 61}}
            \cup {NotFinite("-inf")}

AirInput(t, h, p, td) ==
    [temp_c |-> t, humidity_percent |-> h, pressure_hpa |-> p, dew_point_c |-> td]

InitAir ==
    /\ AirOthersIdle
    /\ \/ /\ air_op = "dew_point"
          /\ \E t \in Temps, h \in Humidities : air_in = AirInput(t, h, Fin(0), Fin(0))
       \/ /\ air_op = "air_density"
          /\ \E t \in Temps, p \in Pressures, td \in DewPoints :
                 air_in = AirInput(t, Fin(0), p, td)
    /\ air_out = [ok |-> FALSE]
    /\ air_pc = "call"

CalculateDewPoint ==
    /\ air_pc = "call" /\ air_op = "dew_point"
    /\ air_out' = calculate_dew_point(air_in.temp_c, air_in.humidity_percent)
    /\ air_pc' = "done"
    /\ UNCHANGED <<air_op, air_in, AirOthers>>

CalculateAirDensity ==
    /\ air_pc = "call" /\ air_op = "air_density"
    /\ air_out' = calculate_air_density(air_in.temp_c, air_in.pressure_hpa, air_in.dew_point_c)
    /\ air_pc' = "done"
    /\ UNCHANGED <<air_op, air_in, AirOthers>>

NextAir ==
    \/ CalculateDewPoint
    \/ CalculateAirDensity

SpecAir == InitAir /\ [][NextAir]_vars

\* C18: calculate_dew_point returns a value for every finite temperature in
\* [-100, 60] and every relative humidity in [0, 100], RH = 0 included, and an
\* error for a relative humidity outside [0, 100].
C18_DewPointOnClosedRange ==
    (air_pc = "done" /\ air_op = "dew_point"
       /\ is_finite(air_in.temp_c) /\ is_finite(air_in.humidity_percent)) =>
        LET t == air_in.temp_c.v
            h == air_in.humidity_percent.v
        IN  /\ (-100 <= t /\ t <= 60 /\ 0 <= h /\ h <= 100) => air_out.ok
            /\ (h < 0 \/ h > 100) => ~air_out.ok

\* C19: calculate_air_density returns a value only if pressure is in
\* (0, 1100], temperature in [-100, 60], dew point <= temperature and the
\* density in [0.5, 2.0]; dew point > temperature, pressure <= 0 and
\* pressure > 1100 are errors.
C19_AirDensityValidated ==
    (air_pc = "done" /\ air_op = "air_density") =>
        LET t == air_in.temp_c
            p == air_in.pressure_hpa
            td == air_in.dew_point_c
        IN  /\ air_out.ok =>
                 /\ t.cls = "finite" /\ p.cls = "finite" /\ td.cls = "finite"
                 /\ 0 < p.v /\ p.v <= 1100
                 /\ -100 <= t.v /\ t.v <= 60
                 /\ td.v <= t.v
                 /\ 5000 <= air_out.v.v /\ air_out.v.v <= 20000
            /\ (t.cls = "finite" /\ p.cls = "finite" /\ td.cls = "finite"
                  /\ (td.v > t.v \/ p.v <= 0 \/ p.v > 1100)) => ~air_out.ok

\* A density returned at the edges: pressure 1100 hPa, dew point equal to the temperature
C19_Witness ==
    /\ air_pc = "done" /\ air_op = "air_density"
    /\ air_out.ok
    /\ air_in.pressure_hpa = Fin(1100)
    /\ air_in.dew_point_c = air_in.temp_c

\* ---------------------------------------------------------------------------
\* FitDecoder::parse on streams with redefinitions, 16-bit global message
\* numbers, rejected definitions, oversized fields and truncated messages
\* local 0 again: record with timestamp (u32) and altitude (u16)
DefRecAlt == <<64, 0, 0, 20, 0, 2, 253, 4, 134, 2, 2, 132>>
\* local 1: global message number 276 (0x0114), timestamp only
Def276 == <<65, 0, 0, 20, 1, 1, 253, 4, 134>>
Dat276 == <<1, 5, 0, 0, 0>>
\* local 2: global message number 275 (0x0113), timestamp, start_time, total_elapsed_time
Def275 == <<66, 0, 0, 19, 1, 3, 253, 4, 134, 2, 4, 134, 7, 4, 134>>
Dat275 == <<2, 10, 0, 0, 0, 5, 0, 0, 0, 136, 19, 0, 0>>
\* local 0 with field_count 101, and with field_count 50 and no field definitions
DefTooMany == <<64, 0, 0, 20, 0, 101>>
DefTruncated == <<64, 0, 0, 20, 0, 50>>
\* local 3: record with timestamp, a 9-byte field 99 and power; its data message
DefBig == <<67, 0, 0, 20, 0, 3, 253, 4, 134, 99, 9, 7, 7, 2, 132>>
DatBig == <<3, 7, 0, 0, 0, 1, 1, 1, 1, 1, 1, 1, 1, 1, 50, 0>>
\* a local 0 data message cut after four bytes
RecShort == <<0, 2, 0, 0, 0>>

DefChunks == {DefRec, RecA, DefRec \o RecA, DefRecAlt, Def276 \o Dat276, Def275 \o Dat275, DefTooMany,
              DefTruncated, DefBig \o DatBig, RecShort}

DefStreams == {Header(FIT_HEADER_MIN_SIZE) \o Concat(cs) \o Crc : cs \in SeqsUpTo(MaxChunks, DefChunks)}

InitDecoderDefs ==
    /\ DecOthersIdle
    /\ data \in DefStreams
    /\ position = 0
    /\ definitions = <<>>
    /\ records = <<>>
    /\ laps = <<>>
    /\ decoded = <<>>
    /\ d_out = <<>>
    /\ d_pc = "new"

SpecDecoderDefs == InitDecoderDefs /\ [][NextDecoder]_vars

\* Streams for the termination property: complete messages, rejected
\* definitions and a record cut short
LiveChunks == {DefRec \o RecA, RecA, DefLapStart \o LapStart, DefLapNoStart \o LapNoStart,
               DefTooMany, DefTruncated, RecShort}

LiveStreams ==
    {Header(FIT_HEADER_MIN_SIZE) \o Concat(cs) \o Crc : cs \in SeqsUpTo(MaxChunks, LiveChunks)}

InitDecoderLive ==
    /\ DecOthersIdle
    /\ data \in LiveStreams
    /\ position = 0
    /\ definitions = <<>>
    /\ records = <<>>
    /\ laps = <<>>
    /\ decoded = <<>>
    /\ d_out = <<>>
    /\ d_pc = "new"

\* parse is one call: it runs until it returns
SpecDecoderLive == InitDecoderLive /\ [][NextDecoder]_vars /\ WF_vars(NextDecoder)

\* Every iteration of the message loop strictly increases the cursor, and the
\* loop is left as soon as the cursor is >= len - 2
LoopAdvances ==
    [][/\ Looping => position' > position
       /\ (d_pc = "parsing" /\ ~Looping) => d_pc' = "done"]_vars

\* C21: FitDecoder::parse terminates on every accepted buffer: parse returns.
C21_ParseTerminates == <>(d_pc = "done")

\* parse returned after a message moved the cursor past len - 2, with a record decoded
C21_Witness ==
    /\ d_pc = "done"
    /\ position > Len(data) - 2
    /\ Len(records) >= 1

\* The definition written in the bytes after the header at the cursor: the
\* low byte of the global message number and the field triples of size <= 8
DefinitionInStream ==
    LET field_count == Byte(data, position + 5)
        triple(i) == [field_number |-> Byte(data, position + 3 + 3 * i),
                      size |-> Byte(data, position + 4 + 3 * i),
                      base_type |-> Byte(data, position + 5 + 3 * i)]
        kept(f) == f.size <= 8
    IN  [message_type |-> Byte(data, position + 3),
         fields |-> SelectSeq([i \in 1..field_count |-> triple(i)], kept),
         global_message_number |-> Byte(data, position + 3) + 256 * Byte(data, position + 4),
         declared_sizes |-> [i \in 1..field_count |-> triple(i).size]]

\* The definition message at the cursor is complete and has at most 100 fields
DefinitionAccepted ==
    /\ position + 6 <= Len(data)
    /\ Byte(data, position + 5) <= 100
    /\ position + 6 + 3 * Byte(data, position + 5) <= Len(data)

IsPrefix(s, t) == Len(s) <= Len(t) /\ \A i \in 1..Len(s) : s[i] = t[i]

\* C22: the table maps each local type to its most recent successfully parsed
\* definition, and every data message is decoded with the definition current
\* for its local type; what was decoded earlier never changes.
C22_CurrentDefinition ==
    [][Looping =>
         /\ IsPrefix(decoded, decoded') /\ IsPrefix(records, records') /\ IsPrefix(laps, laps')
         /\ (HeaderIsDefinition /\ ~DefinitionAccepted) => definitions' = definitions
         /\ (HeaderIsDefinition /\ DefinitionAccepted) =>
              /\ DOMAIN definitions' = DOMAIN definitions \cup {HeaderLocal}
              /\ \A k \in DOMAIN definitions \ {HeaderLocal} :
                     definitions'[k] = definitions[k]
              /\ definitions'[HeaderLocal] = DefinitionInStream
         /\ ~HeaderIsDefinition =>
              /\ definitions' = definitions
              /\ decoded' # decoded =>
                   LET e == decoded'[Len(decoded')]
                       definition == definitions[HeaderLocal]
                   IN  /\ HeaderLocal \in DOMAIN definitions
                       /\ e.message_type = definition.message_type
                       /\ DOMAIN e.field_values =
                              {definition.fields[i].field_number :
                                   i \in 1..Len(definition.fields)}]_vars

\* Local type 0 was redefined between two data messages: the first was decoded
\* with power, the second with altitude
C22_Witness ==
    /\ d_pc = "parsing"
    /\ Len(decoded) = 2
    /\ FIELD_POWER \in DOMAIN decoded[1].field_values
    /\ FIELD_POWER \notin DOMAIN decoded[2].field_values
    /\ FIELD_ALTITUDE \in DOMAIN decoded[2].field_values
    /\ 0 \in DOMAIN definitions /\ Len(definitions[0].fields) = 2
    /\ definitions[0].fields[2].field_number = FIELD_ALTITUDE

\* C23: a data message becomes a record only if the 16-bit global message
\* number of its definition is 20, and a lap only if it is 19.
C23_OnlyRecordAndLap ==
    \A i \in 1..Len(decoded) :
        /\ decoded[i].kind = "record" => decoded[i].global_message_number = 20
        /\ decoded[i].kind = "lap" => decoded[i].global_message_number = 19

\* The definition message at the cursor has its five header bytes and either
\* a field_count above 100 or field-definition bytes past the end of the buffer
DefinitionRejected ==
    /\ Looping /\ HeaderIsDefinition
    /\ position + 6 <= Len(data)
    /\ \/ Byte(data, position + 5) > 100
       \/ position + 6 + 3 * Byte(data, position + 5) > Len(data)

\* C24: a definition message with field_count > 100, or whose field
\* definitions run past the end of the buffer, is rejected with an error (the
\* cursor is left one byte after the six bytes read) and the definition table
\* is unchanged.
C24_RejectedDefinition ==
    [][DefinitionRejected =>
          /\ definitions' = definitions
          /\ position' = position + 7]_vars

\* Local type 0 is defined, and the definition message for local type 0 that
\* followed, with field_count 101, has just been rejected
C24_Witness ==
    /\ d_pc = "parsing"
    /\ Len(data) >= 30 /\ SubSeq(data, 25, 30) = DefTooMany
    /\ position = 31
    /\ 0 \in DOMAIN definitions /\ Len(definitions[0].fields) = 2


RECURSIVE SumSeq(_)
SumSeq(s) == IF s = <<>> THEN 0 ELSE s[1] + SumSeq(Tail(s))

\* C25: after decoding a data message under a definition that declares a
\* field of size > 8, the cursor has advanced by 1 (the header byte) plus the
\* sum of the sizes of all fields the definition declares.
C25_OversizeFieldKeepsSync ==
    [][(/\ Looping /\ ~HeaderIsDefinition
        /\ HeaderLocal \in DOMAIN definitions
        /\ \E i \in 1..Len(definitions[HeaderLocal].declared_sizes) :
               definitions[HeaderLocal].declared_sizes[i] > MaxFieldSize
        /\ decoded' # decoded)
         => position' = position + 1 + SumSeq(definitions[HeaderLocal].declared_sizes)]_vars


\* C27: the decoder never reads a byte at an index >= the buffer length: the
\* header, the definition header, every field-definition triple and every
\* field value of the message at the cursor are read below the end.
C27_ReadsInBounds ==
    Looping => read_message(data, position, definitions).read_end <= Len(data)

\* A data message whose definition is known and whose fields run past the end
\* of the buffer is at the cursor: the field read that would cross the end is
\* refused
C27_Witness ==
    /\ Looping /\ ~HeaderIsDefinition
    /\ HeaderLocal \in DOMAIN definitions
    /\ LET sizes == [i \in 1..Len(definitions[HeaderLocal].fields) |->
                        definitions[HeaderLocal].fields[i].size]
       IN  position + 1 + SumSeq(sizes) > Len(data)
    /\ read_message(data, position, definitions).err
    /\ read_message(data, position, definitions).read_end > position + 1


(***************************************************************************)
(* VirtualElevationCalculator::calculate_rider_directions                  *)
(* (virtual_elevation.rs:202-245): bearings between consecutive samples,   *)
(* their cosine and sine, the smoothing loop, and the conversion back.     *)
(* The bearings are inputs, drawn from the four axis directions, whose     *)
(* cosine and sine are -1, 0 or 1; x_comp and y_comp are kept in units of  *)
(* 1/DirUnit, a power of 3, so that every division by 3.0 is exact.        *)
(***************************************************************************)
MaxDirs == 4

Angles == {0, 90, 180, 270}

RECURSIVE Pow3(_)
Pow3(k) == IF k = 0 THEN 1 ELSE 3 * Pow3(k - 1)

DirUnit == Pow3(MaxDirs)

\* d.to_radians().cos() and d.to_radians().sin() (virtual_elevation.rs:226-227)
CosDeg(a) == CASE a = 0 -> DirUnit [] a = 180 -> -DirUnit [] OTHER -> 0
SinDeg(a) == CASE a = 90 -> DirUnit [] a = 270 -> -DirUnit [] OTHER -> 0

\* y.atan2(x) in degrees, modulo 360 (virtual_elevation.rs:240), kept as its
\* two arguments
Angle(y, x) == [y |-> y, x |-> x]

\* directions after the bearing loop and the copy to the last sample
\* (virtual_elevation.rs:211-223): 0.0 where a position is NaN
Bearings(valid, bearing) ==
    LET n == Len(valid)
        seg(j) == IF valid[j] /\ valid[j + 1] THEN bearing[j] ELSE 0
    IN  [i \in 1..n |-> IF i = n THEN seg(n - 1) ELSE seg(i)]

InitRd ==
    /\ RdOthersIdle
    /\ \E n \in 0..MaxDirs :
          /\ rd_valid \in [1..n -> BOOLEAN]
          /\ rd_bearing \in [1..(IF n = 0 THEN 0 ELSE n - 1) -> Angles]
    /\ directions = <<>>
    /\ x_comp = <<>>
    /\ y_comp = <<>>
    /\ rd_i = 0
    /\ rd_pc = "called"

\* if n < 2 { return vec![0.0; n]; }  (virtual_elevation.rs:207-209)
RdTooShort ==
    /\ rd_pc = "called"
    /\ Len(rd_valid) < 2
    /\ directions' = [i \in 1..Len(rd_valid) |-> 0]
    /\ rd_pc' = "done"
    /\ UNCHANGED <<rd_valid, rd_bearing, x_comp, y_comp, rd_i, RdOthers>>

\* The bearings and their components (virtual_elevation.rs:211-231); the
\* smoothing loop is entered when window_size = min(3, n) is 3
RdBearings ==
    /\ rd_pc = "called"
    /\ Len(rd_valid) >= 2
    /\ directions' = Bearings(rd_valid, rd_bearing)
    /\ x_comp' = [i \in 1..Len(rd_valid) |-> CosDeg(Bearings(rd_valid, rd_bearing)[i])]
    /\ y_comp' = [i \in 1..Len(rd_valid) |-> SinDeg(Bearings(rd_valid, rd_bearing)[i])]
    /\ rd_i' = 1
    /\ rd_pc' = IF Len(rd_valid) >= 3 THEN "smoothing" ELSE "converting"
    /\ UNCHANGED <<rd_valid, rd_bearing, RdOthers>>

\* (c[i-1] + c[i] + c[i+1]) / 3.0 for the 0-based index i of the loop
Mean3(c, i) == (c[i] + c[i + 1] + c[i + 2]) \div 3

\* One iteration of `for i in 1..(n-1)` (virtual_elevation.rs:232-235): the
\* vectors are updated in place
RdSmooth ==
    /\ rd_pc = "smoothing"
    /\ x_comp' = [x_comp EXCEPT ![rd_i + 1] = Mean3(x_comp, rd_i)]
    /\ y_comp' = [y_comp EXCEPT ![rd_i + 1] = Mean3(y_comp, rd_i)]
    /\ rd_i' = rd_i + 1
    /\ rd_pc' = IF rd_i + 1 < Len(rd_valid) - 1 THEN "smoothing" ELSE "converting"
    /\ UNCHANGED <<rd_valid, rd_bearing, directions, RdOthers>>

\* Convert back to angles and return (virtual_elevation.rs:239-243)
RdConvert ==
    /\ rd_pc = "converting"
    /\ directions' = [i \in 1..Len(rd_valid) |-> Angle(y_comp[i], x_comp[i])]
    /\ rd_pc' = "done"
    /\ UNCHANGED <<rd_valid, rd_bearing, x_comp, y_comp, rd_i, RdOthers>>

NextRd ==
    \/ RdTooShort
    \/ RdBearings
    \/ RdSmooth
    \/ RdConvert

SpecRd == InitRd /\ [][NextRd]_vars

\* The components before smoothing
RawX == [i \in 1..Len(rd_valid) |-> CosDeg(Bearings(rd_valid, rd_bearing)[i])]
RawY == [i \in 1..Len(rd_valid) |-> SinDeg(Bearings(rd_valid, rd_bearing)[i])]

\* C26: the returned directions come from a 3-point moving average: for every
\* interior index i (1..n-2) the smoothed cosine and sine are the mean of the
\* unsmoothed components at i-1, i and i+1; indices 0 and n-1 are unsmoothed.
C26_MovingAverage ==
    (rd_pc = "done" /\ Len(rd_valid) >= 3) =>
        LET n == Len(rd_valid)
        IN  /\ x_comp[1] = RawX[1] /\ y_comp[1] = RawY[1]
            /\ x_comp[n] = RawX[n] /\ y_comp[n] = RawY[n]
            /\ \A i \in 1..(n - 2) :
                   /\ 3 * x_comp[i + 1] = RawX[i] + RawX[i + 1] + RawX[i + 2]
                   /\ 3 * y_comp[i + 1] = RawY[i] + RawY[i + 1] + RawY[i + 2]


\* C29: with the velodrome flag set r2 is 0 for every input and every trim
\* region, and where the metrics are computed over a trim region, rmse and
\* ve_elevation_diff are those of the virtual elevation calibrated to the
\* zero reference at the start of the region.
C29_VelodromeR2Zero ==
    (ve_pc = "done" /\ ve_params.velodrome) =>
        /\ ve_result.r2.n = 0
        /\ (/\ ve_result.metrics.used
            /\ Len(ve_data.altitude) > 0
            /\ \E i \in 1..Len(ve_data.altitude) : ~ve_data.altitude[i].nan
            /\ \E i \in 1..Len(ve_data.altitude) :
                   ve_data.altitude[i].nan \/ ve_data.altitude[i].v # 0)
           => LET h == ve_result.virtual_elevation
                  start == ve_result.metrics.start
                  end == ve_result.metrics.end
                  trim_len == end - start + 1
                  calibrated == [k \in 1..trim_len |->
                                    FSub(At(h, start + k - 1), At(h, start))]
                  mse == FSum([k \in 1..trim_len |-> FMul(calibrated[k], calibrated[k])],
                              trim_len)
              IN  /\ ve_result.rmse_sq.nan = mse.nan
                  /\ ~mse.nan => ve_result.rmse_sq.n * trim_len = mse.v * ve_result.rmse_sq.d
                  /\ ve_result.ve_elevation_diff = FSub(At(h, end), At(h, start))

\* Velodrome metrics over a region in which both the recorded altitude and the
\* virtual elevation vary, with a rmse above 0
C29_Witness ==
    /\ ve_pc = "done"
    /\ ve_params.velodrome
    /\ ve_result.metrics.used
    /\ \E i \in 1..Len(ve_data.altitude) :
           ~ve_data.altitude[i].nan /\ ve_data.altitude[i].v # 0
    /\ At(ve_data.altitude, ve_result.metrics.start)
         # At(ve_data.altitude, ve_result.metrics.start + 1)
    /\ ~ve_result.rmse_sq.nan /\ ve_result.rmse_sq.n > 0
    /\ ve_result.ve_elevation_diff # F(0)


\* C28: when the determinant of the geotransform is below 1e-10 in absolute
\* value, batch_lookup on a DEM without projection returns no error, and for
\* every coordinate the same result: the value of raster cell (0, 0), or NaN
\* if that cell is nodata.
C28_DegenerateSamplesOrigin ==
    LET t == dem.transform
        cell == dem.data[1]
        nodata == cell.nan \/ Abs(cell.v - dem.nodata_value) < NodataEps
    IN  (/\ dem_pc # "idle"
         /\ ~dem.has_proj
         /\ Abs(t.pixel_width * t.pixel_height - t.rotation_x * t.rotation_y) < t.det_eps
         /\ Len(lats) = Len(lons))
        => /\ dem_pc # "error"
           /\ \A i \in 1..Len(altitudes) : altitudes[i] = (IF nodata THEN NaN ELSE cell)

\* Two different coordinates were looked up in a raster with a degenerate
\* transform, and both returned the value of cell (0, 0)
C28_Witness ==
    /\ dem_pc = "done"
    /\ ~dem.has_proj
    /\ dem.transform = TinyPixel
    /\ Len(altitudes) = 2
    /\ lats[1] # lats[2] /\ lons[1] # lons[2]
    /\ altitudes[1] = dem.data[1] /\ altitudes[2] = dem.data[1]


(***************************************************************************)
(* DEMProcessor::setup_projection (dem_processor.rs:645-701), called when  *)
(* no .prj content is given (dem_processor.rs:216-220), and                *)
(* estimate_utm_zone_from_coords (dem_processor.rs:703-734).  Coordinates  *)
(* are whole metres; the two Proj values are kept by the kind of the DEM   *)
(* projection and, for UTM, its zone.                                      *)
(***************************************************************************)
\* dem_processor.rs:647
ProjectedMin == 1000
\* dem_processor.rs:657
LaeaMinX == 2000000
LaeaMaxX == 8000000
LaeaMinY == 1000000
LaeaMaxY == 6000000
\* dem_processor.rs:668
UtmMinX == 100000
UtmMaxX == 900000
UtmMaxY == 10000000
\* dem_processor.rs:712-725
SouthMinY == 3000000
SouthMaxY == 4000000
WestMaxX == 400000
MidMaxX == 550000

\* ---- DEMProcessor::estimate_utm_zone_from_coords (dem_processor.rs:703-734)
estimate_utm_zone_from_coords(easting, northing) ==
    IF northing > SouthMinY /\ northing < SouthMaxY
    THEN (IF easting < WestMaxX THEN 15 ELSE IF easting < MidMaxX THEN 16 ELSE 17)
    ELSE IF northing > SouthMaxY
    THEN (IF easting < WestMaxX THEN 12 ELSE IF easting < MidMaxX THEN 16 ELSE 17)
    ELSE 16

NoProjection == [kind |-> "none", zone |-> 0]

\* setup_projection that takes the bounds of the UTM range as part of the range
setup_projection_UtmInclusive(x, y) ==
    IF Abs(x) > ProjectedMin \/ Abs(y) > ProjectedMin
    THEN IF x > LaeaMinX /\ x < LaeaMaxX /\ y > LaeaMinY /\ y < LaeaMaxY
         THEN [kind |-> "laea", zone |-> 0]
         ELSE IF x >= UtmMinX /\ x <= UtmMaxX /\ y >= 0 /\ y <= UtmMaxY
         THEN [kind |-> "utm", zone |-> estimate_utm_zone_from_coords(x, y)]
         ELSE NoProjection
    ELSE NoProjection

\* ---- DEMProcessor::setup_projection (dem_processor.rs:645-701)
setup_projection(x, y) ==
    IF Abs(x) > ProjectedMin \/ Abs(y) > ProjectedMin
    THEN IF x > LaeaMinX /\ x < LaeaMaxX /\ y > LaeaMinY /\ y < LaeaMaxY
         THEN [kind |-> "laea", zone |-> 0]
         ELSE IF x > UtmMinX /\ x < UtmMaxX /\ y > 0 /\ y < UtmMaxY
         THEN [kind |-> "utm", zone |-> estimate_utm_zone_from_coords(x, y)]
         ELSE NoProjection
    ELSE NoProjection

\* Origins at, just below and just above every threshold of the two functions
Around(ts) == UNION {{t - 1, t, t + 1} : t \in ts}
OriginXs == Around({-ProjectedMin, 0, ProjectedMin, UtmMinX, WestMaxX, MidMaxX, UtmMaxX,
                    LaeaMinX, LaeaMaxX})
OriginYs == Around({-ProjectedMin, 0, ProjectedMin, LaeaMinY, SouthMinY, SouthMaxY,
                    LaeaMaxY, UtmMaxY})

InitPrj ==
    /\ PrjOthersIdle
    /\ prj_origin \in OriginXs \X OriginYs
    /\ prj_out = NoProjection
    /\ prj_pc = "call"

SetupProjection ==
    /\ prj_pc = "call"
    /\ prj_out' = setup_projection(prj_origin[1], prj_origin[2])
    /\ prj_pc' = "done"
    /\ UNCHANGED <<prj_origin, PrjOthers>>

NextPrj == SetupProjection

SpecPrj == InitPrj /\ [][NextPrj]_vars

\* C30: without .prj content, a UTM projection is selected exactly when the
\* origin has |x| > 1000 or |y| > 1000, is not in the LAEA box and has
\* 1e5 < x < 9e5 and 0 < y < 1e7; the zone is one of 12, 15, 16 and 17,
\* whatever the origin.
C30_UtmSelection ==
    LET x == prj_origin[1]
        y == prj_origin[2]
        is_projected == x > ProjectedMin \/ x < -ProjectedMin \/ y > ProjectedMin \/ y < -ProjectedMin
        in_laea == x > LaeaMinX /\ x < LaeaMaxX /\ y > LaeaMinY /\ y < LaeaMaxY
        utm_range == x > UtmMinX /\ x < UtmMaxX /\ y > 0 /\ y < UtmMaxY
    IN  /\ estimate_utm_zone_from_coords(x, y) \in {12, 15, 16, 17}
        /\ prj_pc = "done" =>
             /\ (prj_out.kind = "utm") <=> (is_projected /\ ~in_laea /\ utm_range)
             /\ prj_out.kind = "utm" => prj_out.zone \in {12, 15, 16, 17}

\* A northern origin west of 400 km easting: UTM zone 12 was selected
C30_Witness ==
    /\ prj_pc = "done"
    /\ prj_out.kind = "utm" /\ prj_out.zone = 12
    /\ prj_origin[1] < WestMaxX /\ prj_origin[2] > SouthMaxY

=============================================================================
